---------------------------- MODULE Spec2Model ----------------------------
(***************************************************************************)
(* MEDUSA solver-tile controller (firmware/ksat/lib/MEDUSA/MEDUSA.cpp).    *)
(*                                                                         *)
(* A 32-bit register value is modelled as the set of its set bit           *)
(* positions (a subset of 0..31): | is \cup, & is \cap, ~ is complement    *)
(* in 0..31, << drops the bits shifted past bit 31.  Register addresses    *)
(* are symbolic tuples (<<"WL", tile, word>>, <<"BL", tile, word>>, ...),   *)
(* the word index standing for the byte offset (word << 2).                *)
(*                                                                         *)
(* The constants of MEDUSA.h take the values of the layout that            *)
(* MEDUSA.cpp relies on (17 word-line words with the oscillator word in    *)
(* the middle, two reserved word lines at each end, 16 variables per       *)
(* bit-line word).                                                         *)
(***************************************************************************)
EXTENDS Integers, Sequences, FiniteSets, TLC

(***************************************************************************)
(* Bounds of the model                                                     *)
(***************************************************************************)
MaxRuns == 2
MaxAttempts == 2

(***************************************************************************)
(* Program constants                                                       *)
(***************************************************************************)
TILE_RIGHT == 0
TILE_LEFT == 1
TILE_BOTH == 2

WL_WORDS == 17
BL_WORDS == 17
RXO_WL_WORD == 8

HALF_CLS == 254
SECT_CLS == 127
CNF_MAX_CLS == 508
CNF_MAX_K == 7
TOP_CLS_START_WL == 2
BOT_CLS_START_WL == 541

SMPL_DOUT_WORDS == 8

\* Global control register bit positions (per 16-bit tile half)
RUN == 0
RXO_RST == 1
RXO_MODE == 2
CLS_SW_ENb_TOP == 3
CLS_SW_ENb_BOT == 4

\* Sampling control register bit positions (per 16-bit tile half)
SMPL_RSTB == 0
SMPL_MODE == 1
ERRB_MODE == 2
CLK_DIV0 == 3
CLK_DIV1 == 4

\* runSolverSingle / runSolverCoupled: timeout in microseconds
timeout == 10000
\* setupSampling: hold time written to the hold-time register
holdTime == 100
\* Sampling clock: 895E3 * 1024 / 8 ticks per second
SMPL_CLK_HZ == (895000 * 1024) \div 8

(***************************************************************************)
(* 32-bit words as bit sets                                                *)
(***************************************************************************)
BitIdx == 0..31
Tiles == {TILE_RIGHT, TILE_LEFT}

Shl(x, k) == {b + k : b \in x} \cap BitIdx
Not32(x) == BitIdx \ x
MASK_16B == 0..15

RECURSIVE ToBitsFrom(_, _)
ToBitsFrom(n, pos) ==
  IF n = 0 \/ pos > 31 THEN {}
  ELSE (IF n % 2 = 1 THEN {pos} ELSE {}) \cup ToBitsFrom(n \div 2, pos + 1)

\* the bit set of a natural number (uint32 conversion)
ToBits(n) == ToBitsFrom(n, 0)

\* bool -> int conversion followed by a shift: (b << pos)
BoolShl(b, pos) == IF b THEN {pos} ELSE {}

\* symbolic register addresses
WLAddr(tile, i) == <<"WL", tile, i>>
BLAddr(tile, i) == <<"BL", tile, i>>
GLBL_CTRL_ADDR == <<"GLBL_CTRL">>
SMPL_CTRL_ADDR == <<"SMPL_CTRL">>
HoldTimeAddr(tile) == <<"HOLD_TIME", tile>>

\* one writeReg(address, data) transaction
W(addr, data) == <<addr, data>>

\* concatenation of a sequence of sequences
RECURSIVE Concat(_)
Concat(ss) == IF Len(ss) = 0 THEN <<>> ELSE Head(ss) \o Concat(Tail(ss))

\* the hardware-side shadow state threaded through the register operations:
\* g = globalReg, s = sampleReg, w = the writeReg transactions issued so far
Mach(g, s, w) == [g |-> g, s |-> s, w |-> w]
Emit(m, ws) == [m EXCEPT !.w = m.w \o ws]

(***************************************************************************)
(* MEDUSA::resetClsMem                                                     *)
(***************************************************************************)
\* mutant: the last bit-line word is not cleared
ResetClsMemWrites_ShortBL(tile) ==
  [k \in 1..WL_WORDS |-> W(WLAddr(tile, k - 1), {})]
    \o [k \in 1..(BL_WORDS - 1) |-> W(BLAddr(tile, k - 1), {})]
    \o << W(WLAddr(tile, 0), {0}),
          W(WLAddr(tile, WL_WORDS - 1), {31}) >>

ResetClsMemWrites(tile) ==
  [k \in 1..WL_WORDS |-> W(WLAddr(tile, k - 1), {})]
    \o [k \in 1..BL_WORDS |-> W(BLAddr(tile, k - 1), {})]
    \o << W(WLAddr(tile, 0), {0}),
          W(WLAddr(tile, WL_WORDS - 1), {31}) >>

\* mutant: the clause memory is not reset
ResetClsMem_Skip(m, tile) == m

ResetClsMem(m, tile) == Emit(m, ResetClsMemWrites(tile))

(***************************************************************************)
(* MEDUSA::setupClsBias                                                    *)
(***************************************************************************)
ClsBiasGlobal(m, tile, numCls) ==
  IF numCls > HALF_CLS + SECT_CLS
    THEN LET g == m.g \cap Not32(Shl({CLS_SW_ENb_TOP}, tile * 16)
                                  \cup Shl({CLS_SW_ENb_BOT}, tile * 16))
         IN  Emit([m EXCEPT !.g = g], << W(GLBL_CTRL_ADDR, g) >>)
  ELSE IF numCls > SECT_CLS
    THEN LET g == m.g \cap Not32(Shl({CLS_SW_ENb_TOP}, tile * 16))
         IN  Emit([m EXCEPT !.g = g], << W(GLBL_CTRL_ADDR, g) >>)
  ELSE m

ClsBiasWrites(tile, numCls) ==
  [k \in 1..BL_WORDS |-> W(BLAddr(tile, k - 1), BitIdx)]
    \o << W(WLAddr(tile, WL_WORDS - 1), {30, 31}) >>
    \o (IF numCls > HALF_CLS THEN << W(WLAddr(tile, 0), {0, 1}) >> ELSE <<>>)
    \o << W(WLAddr(tile, WL_WORDS - 1), {31}) >>
    \o (IF numCls > HALF_CLS THEN << W(WLAddr(tile, 0), {0}) >> ELSE <<>>)
    \o [k \in 1..BL_WORDS |-> W(BLAddr(tile, k - 1), {})]

SetupClsBias(m, tile, numVar, numCls) ==
  Emit(ClsBiasGlobal(m, tile, numCls), ClsBiasWrites(tile, numCls))

(***************************************************************************)
(* MEDUSA::disableCls                                                      *)
(***************************************************************************)
DisableClsWL(tile, i, first, last, other) ==
  IF i = 0 THEN << W(WLAddr(tile, 0), first) >>
  ELSE IF i = WL_WORDS - 1 THEN << W(WLAddr(tile, i), last) >>
  ELSE IF i # RXO_WL_WORD THEN << W(WLAddr(tile, i), other) >>
  ELSE <<>>

RECURSIVE DisableClsLoop(_, _, _, _, _)
DisableClsLoop(tile, i, first, last, other) ==
  IF i >= WL_WORDS THEN <<>>
  ELSE DisableClsWL(tile, i, first, last, other)
         \o DisableClsLoop(tile, i + 1, first, last, other)

DisableClsWrites(tile) ==
  << W(BLAddr(tile, BL_WORDS - 1), {16}) >>
    \o DisableClsLoop(tile, 0, BitIdx \ {1}, BitIdx \ {30}, BitIdx)
    \o DisableClsLoop(tile, 0, {0}, {31}, {})
    \o << W(BLAddr(tile, BL_WORDS - 1), {}) >>

DisableCls(m, tile) == Emit(m, DisableClsWrites(tile))

(***************************************************************************)
(* MEDUSA::writeWL                                                         *)
(***************************************************************************)
WriteWLWrites(tile, wl, data) ==
  LET wlWrd == wl \div 32
      wlBit == wl % 32
  IN  IF wlWrd = 0
        THEN << W(WLAddr(tile, 0), BoolShl(data, wlBit) \cup {0}) >>
      ELSE IF wlWrd = WL_WORDS - 1
        THEN << W(WLAddr(tile, wlWrd), BoolShl(data, wlBit) \cup {31}) >>
      ELSE << W(WLAddr(tile, wlWrd), BoolShl(data, wlBit)) >>

(***************************************************************************)
(* MEDUSA::writeCnf                                                        *)
(* A clause row cnf[i] is the sequence of its non-zero literals; the zero  *)
(* that ends the row in the array is implicit.                             *)
(***************************************************************************)
Abs(x) == IF x < 0 THEN -x ELSE x
BLWordIdx == 0..(BL_WORDS - 1)

\* mutant: the first half includes index HALF_CLS
ClauseWordLine_OffByOne(i) ==
  IF i <= HALF_CLS THEN TOP_CLS_START_WL + i
  ELSE BOT_CLS_START_WL - (i - HALF_CLS)

\* mutant: the bottom half is not counted from its own start
ClauseWordLine_NoOffset(i) ==
  IF i < HALF_CLS THEN TOP_CLS_START_WL + i
  ELSE BOT_CLS_START_WL - i

\* word line of clause index i (lines 623-632)
ClauseWordLine(i) ==
  IF i < HALF_CLS THEN TOP_CLS_START_WL + i
  ELSE BOT_CLS_START_WL - (i - HALF_CLS)

\* mutant: one bit per variable instead of two
LitBit_NoDouble(data) == (Abs(data) - 1) % 16

\* bit-line word and bit of one literal (lines 639-641)
LitWord(data) == (Abs(data) - 1) \div 16
LitBit(data) == 2 * ((Abs(data) - 1) % 16)
LitNeg(data) == data < 0

\* blData[wrd] |= (1 << (bit+1)) | (neg << bit)   (line 644)
LitMask(data) == {LitBit(data) + 1} \cup BoolShl(LitNeg(data), LitBit(data))

\* the while loop over the literals of one clause (lines 634-648):
\* bl = [used |-> blUsed, data |-> blData]
RECURSIVE EncodeLits(_, _)
EncodeLits(bl, lits) ==
  IF lits = <<>> THEN bl
  ELSE LET data == Head(lits)
           wrd == LitWord(data)
       IN  EncodeLits([used |-> [bl.used EXCEPT ![wrd] = TRUE],
                       data |-> [bl.data EXCEPT ![wrd] = @ \cup LitMask(data)]],
                      Tail(lits))

\* mutant: the last word is not marked as used
EncodeClause_NoEnable(lits) ==
  EncodeLits([used |-> [w \in BLWordIdx |-> FALSE],
              data |-> [w \in BLWordIdx |-> {}]], lits)

\* blUsed / blData of one clause (lines 618-620 and the loop)
EncodeClause(lits) ==
  EncodeLits([used |-> [w \in BLWordIdx |-> w = BL_WORDS - 1],
              data |-> [w \in BLWordIdx |-> {}]], lits)

RECURSIVE UsedBLWrites(_, _, _, _)
UsedBLWrites(tile, bl, i, clear) ==
  IF i >= BL_WORDS THEN <<>>
  ELSE (IF bl.used[i]
          THEN << W(BLAddr(tile, i), IF clear THEN {} ELSE bl.data[i]) >>
          ELSE <<>>)
         \o UsedBLWrites(tile, bl, i + 1, clear)

\* mutant: the bit lines are not cleared after the word-line pulse
ClauseWrites_NoClear(tile, i, lits) ==
  LET bl == EncodeClause(lits)
      wl == ClauseWordLine(i)
  IN  UsedBLWrites(tile, bl, 0, FALSE)
        \o WriteWLWrites(tile, wl, TRUE)
        \o WriteWLWrites(tile, wl, FALSE)

\* mutant: the bit lines are cleared while the word line is asserted
ClauseWrites_ClearEarly(tile, i, lits) ==
  LET bl == EncodeClause(lits)
      wl == ClauseWordLine(i)
  IN  UsedBLWrites(tile, bl, 0, FALSE)
        \o WriteWLWrites(tile, wl, TRUE)
        \o UsedBLWrites(tile, bl, 0, TRUE)
        \o WriteWLWrites(tile, wl, FALSE)

\* the register writes of one iteration of the clause loop (lines 650-670)
ClauseWrites(tile, i, lits) ==
  LET bl == EncodeClause(lits)
      wl == ClauseWordLine(i)
  IN  UsedBLWrites(tile, bl, 0, FALSE)
        \o WriteWLWrites(tile, wl, TRUE)
        \o WriteWLWrites(tile, wl, FALSE)
        \o UsedBLWrites(tile, bl, 0, TRUE)

\* the writes of clauses i..numCls-1 in index order (the range is halved to
\* keep the evaluation shallow)
RECURSIVE AllClauseWrites(_, _, _, _)
AllClauseWrites(tile, i, numCls, cnf) ==
  IF i >= numCls THEN <<>>
  ELSE IF i + 1 = numCls THEN ClauseWrites(tile, i, cnf[i + 1])
  ELSE LET mid == (i + numCls) \div 2
       IN  AllClauseWrites(tile, i, mid, cnf) \o AllClauseWrites(tile, mid, numCls, cnf)

\* cnf: the sequence of clause rows (cnf[i+1] is the row of clause index i)
WriteCnf(m, tile, numVar, numCls, cnf) ==
  Emit(DisableCls(m, tile), AllClauseWrites(tile, 0, numCls, cnf))

(***************************************************************************)
(* MEDUSA::setupRXOs                                                       *)
(***************************************************************************)
\* a register byte repeated in the n low bytes of a word
Bytes(reg, n) == UNION {Shl(reg, 8 * k) : k \in 0..(n - 1)}

RxoReg(numCls) == IF numCls > HALF_CLS THEN {2, 3, 4, 5} ELSE {2, 3}
BiasReg == {4, 5, 6, 7}

RxoNumWords(numVar) == (numVar \div 16) + (IF numVar % 16 # 0 THEN 1 ELSE 0)
RxoNumByte(numVar) ==
  LET partWord == numVar % 16
  IN  (partWord \div 4) + (IF partWord % 4 # 0 THEN 1 ELSE 0)

RxoFullWord(numCls) == Bytes(RxoReg(numCls), 4)
BiasFullWord == Bytes(BiasReg, 4)

\* lines 475-498: both partial words start as rxoFullWord
RxoPartWord(numVar, numCls) ==
  IF RxoNumByte(numVar) \in {1, 2, 3}
    THEN Bytes(RxoReg(numCls), RxoNumByte(numVar))
    ELSE RxoFullWord(numCls)

BiasPartWord(numVar, numCls) ==
  IF RxoNumByte(numVar) \in {1, 2, 3}
    THEN Bytes(BiasReg, RxoNumByte(numVar))
    ELSE RxoFullWord(numCls)

\* one phase (biasing or enable) of the bit-line / word-line sequence
RxoPhaseWrites(tiles, numWords, full, part, wlAssert) ==
  Concat([k \in 1..(numWords - 1) |->
            [t \in 1..Len(tiles) |-> W(BLAddr(tiles[t], k - 1), full)]])
    \o [t \in 1..Len(tiles) |-> W(BLAddr(tiles[t], numWords - 1), part)]
    \o [t \in 1..Len(tiles) |-> W(WLAddr(tiles[t], RXO_WL_WORD), wlAssert)]
    \o [t \in 1..Len(tiles) |-> W(WLAddr(tiles[t], RXO_WL_WORD), {})]

RxoBLWLWrites(tiles, numVar, numCls) ==
  RxoPhaseWrites(tiles, RxoNumWords(numVar), BiasFullWord,
                 BiasPartWord(numVar, numCls), {2})
    \o RxoPhaseWrites(tiles, RxoNumWords(numVar), RxoFullWord(numCls),
                      RxoPartWord(numVar, numCls), {0, 1, 3, 4})

\* mutant: the single-tile cases release the coupling bit of their tile
RxoResetGlobal_Uncouple(m, tile) ==
  LET rst == IF tile = TILE_RIGHT THEN {RXO_RST}
             ELSE IF tile = TILE_LEFT THEN Shl({RXO_RST}, 16)
             ELSE {RXO_RST} \cup Shl({RXO_RST}, 16)
      g1 == m.g \cup rst
      g2 == IF tile = TILE_BOTH
              THEN (g1 \cap Not32(rst)) \cup {RXO_MODE} \cup Shl({RXO_MODE}, 16)
              ELSE g1 \cap Not32(rst) \cap Not32(Shl({RXO_MODE}, 16 * tile))
  IN  Emit([m EXCEPT !.g = g2],
           << W(GLBL_CTRL_ADDR, g1), W(GLBL_CTRL_ADDR, g2) >>)

\* mutant: the TILE_BOTH case completes the reset without the coupling bits
RxoResetGlobal_NoCoupling(m, tile) ==
  LET rst == IF tile = TILE_RIGHT THEN {RXO_RST}
             ELSE IF tile = TILE_LEFT THEN Shl({RXO_RST}, 16)
             ELSE {RXO_RST} \cup Shl({RXO_RST}, 16)
      g1 == m.g \cup rst
      g2 == g1 \cap Not32(rst)
  IN  Emit([m EXCEPT !.g = g2],
           << W(GLBL_CTRL_ADDR, g1), W(GLBL_CTRL_ADDR, g2) >>)

\* mutant: the shadow is updated after the reset pulse without a write
RxoResetGlobal_NoWrite(m, tile) ==
  LET rst == IF tile = TILE_RIGHT THEN {RXO_RST}
             ELSE IF tile = TILE_LEFT THEN Shl({RXO_RST}, 16)
             ELSE {RXO_RST} \cup Shl({RXO_RST}, 16)
      g1 == m.g \cup rst
  IN  Emit([m EXCEPT !.g = m.g \ rst], << W(GLBL_CTRL_ADDR, g1) >>)

\* the global-register part of each switch case (lines 504-507, 530-533, 556-561)
RxoResetGlobal(m, tile) ==
  LET rst == IF tile = TILE_RIGHT THEN {RXO_RST}
             ELSE IF tile = TILE_LEFT THEN Shl({RXO_RST}, 16)
             ELSE {RXO_RST} \cup Shl({RXO_RST}, 16)
      mode == IF tile = TILE_BOTH THEN {RXO_MODE} \cup Shl({RXO_MODE}, 16)
              ELSE {}
      g1 == m.g \cup rst
      g2 == (g1 \cap Not32(rst)) \cup mode
  IN  Emit([m EXCEPT !.g = g2],
           << W(GLBL_CTRL_ADDR, g1), W(GLBL_CTRL_ADDR, g2) >>)

SetupRXOs(m, tile, numVar, numCls) ==
  IF tile = TILE_RIGHT
    THEN Emit(RxoResetGlobal(m, tile),
              RxoBLWLWrites(<<TILE_RIGHT>>, numVar, numCls))
  ELSE IF tile = TILE_LEFT
    THEN Emit(RxoResetGlobal(m, tile),
              RxoBLWLWrites(<<TILE_LEFT>>, numVar, numCls))
  ELSE IF tile = TILE_BOTH
    THEN Emit(RxoResetGlobal(m, tile),
              RxoBLWLWrites(<<TILE_RIGHT, TILE_LEFT>>, numVar, numCls))
  ELSE m

(***************************************************************************)
(* MEDUSA::setupSampling                                                   *)
(***************************************************************************)
\* lines 681-690: out-of-range parameters are replaced
ClampClkDiv(clkDiv) == IF clkDiv > 3 THEN 3 ELSE clkDiv

\* mutant: an invalid mode becomes the largest mode
ClampMode_Max(mode) == IF mode > 3 THEN 3 ELSE mode

ClampMode(mode) == IF mode > 3 THEN 0 ELSE mode

\* lines 693-699
SamplingConfiguration(clkDiv, mode) ==
  LET cd == ClampClkDiv(clkDiv)
      md == ClampMode(mode)
      clkDiv0 == cd % 2 = 1
      clkDiv1 == (cd \div 2) % 2 = 1
      errbMode == md % 2 = 1
      smplMode == (md \div 2) % 2 = 1
  IN  {SMPL_RSTB} \cup BoolShl(smplMode, SMPL_MODE)
        \cup BoolShl(errbMode, ERRB_MODE)
        \cup BoolShl(clkDiv1, CLK_DIV1) \cup BoolShl(clkDiv0, CLK_DIV0)

\* mutant: the RIGHT case overwrites the whole shadow
SetupSampling_WholeWord(m, tile, clkDiv, mode) ==
  LET configuration == SamplingConfiguration(clkDiv, mode)
      hold == ToBits(holdTime)
  IN  IF tile = TILE_RIGHT
        THEN LET s1 == m.s \cap Not32({SMPL_RSTB})
                 s2 == configuration
             IN  Emit([m EXCEPT !.s = s2],
                      << W(SMPL_CTRL_ADDR, s1), W(SMPL_CTRL_ADDR, s2),
                         W(HoldTimeAddr(TILE_RIGHT), hold) >>)
      ELSE IF tile = TILE_LEFT
        THEN LET s1 == m.s \cap Not32(Shl({SMPL_RSTB}, 16))
                 s2 == (s1 \cap MASK_16B) \cup Shl(configuration, 16)
             IN  Emit([m EXCEPT !.s = s2],
                      << W(SMPL_CTRL_ADDR, s1), W(SMPL_CTRL_ADDR, s2),
                         W(HoldTimeAddr(TILE_LEFT), hold) >>)
      ELSE IF tile = TILE_BOTH
        THEN LET s1 == m.s \cap Not32({SMPL_RSTB} \cup Shl({SMPL_RSTB}, 16))
                 s2 == Shl(configuration, 16) \cup configuration
             IN  Emit([m EXCEPT !.s = s2],
                      << W(SMPL_CTRL_ADDR, s1), W(SMPL_CTRL_ADDR, s2),
                         W(HoldTimeAddr(TILE_RIGHT), hold),
                         W(HoldTimeAddr(TILE_LEFT), hold) >>)
      ELSE m

SetupSampling(m, tile, clkDiv, mode) ==
  LET configuration == SamplingConfiguration(clkDiv, mode)
      hold == ToBits(holdTime)
  IN  IF tile = TILE_RIGHT
        THEN LET s1 == m.s \cap Not32({SMPL_RSTB})
                 s2 == (s1 \cap Shl(MASK_16B, 16)) \cup configuration
             IN  Emit([m EXCEPT !.s = s2],
                      << W(SMPL_CTRL_ADDR, s1), W(SMPL_CTRL_ADDR, s2),
                         W(HoldTimeAddr(TILE_RIGHT), hold) >>)
      ELSE IF tile = TILE_LEFT
        THEN LET s1 == m.s \cap Not32(Shl({SMPL_RSTB}, 16))
                 s2 == (s1 \cap MASK_16B) \cup Shl(configuration, 16)
             IN  Emit([m EXCEPT !.s = s2],
                      << W(SMPL_CTRL_ADDR, s1), W(SMPL_CTRL_ADDR, s2),
                         W(HoldTimeAddr(TILE_LEFT), hold) >>)
      ELSE IF tile = TILE_BOTH
        THEN LET s1 == m.s \cap Not32({SMPL_RSTB} \cup Shl({SMPL_RSTB}, 16))
                 s2 == Shl(configuration, 16) \cup configuration
             IN  Emit([m EXCEPT !.s = s2],
                      << W(SMPL_CTRL_ADDR, s1), W(SMPL_CTRL_ADDR, s2),
                         W(HoldTimeAddr(TILE_RIGHT), hold),
                         W(HoldTimeAddr(TILE_LEFT), hold) >>)
      ELSE m

(***************************************************************************)
(* CNF problems read by readCNF.  Problem family p gives the row of        *)
(* clause index i; every row holds at most CNF_MAX_K literals over         *)
(* distinct variables 1..MaxVarIdx.                                        *)
(***************************************************************************)
MaxVarIdx == 16 * (BL_WORDS - 1)
ProblemIds == 0..2

CnfLit(p, i, j) ==
  IF p = 0 THEN (IF (i \div MaxVarIdx) % 2 = 0 THEN 1 ELSE -1) * ((i % MaxVarIdx) + 1)
  ELSE IF p = 1 THEN (IF (i \div MaxVarIdx) % 2 = 0 THEN -1 ELSE 1) * ((i % MaxVarIdx) + 1)
  ELSE (IF (i + j) % 2 = 0 THEN 1 ELSE -1) * (((i + 37 * j) % MaxVarIdx) + 1)

CnfRow(p, i) ==
  IF p \in {0, 1} THEN << CnfLit(p, i, 0) >>
  ELSE [j \in 1..(i % (CNF_MAX_K + 1)) |-> CnfLit(p, i, j - 1)]

\* rows of clause indices from..(from + n - 1)
CnfRows(p, from, n) == [k \in 1..n |-> CnfRow(p, from + k - 1)]

\* the problems the solver runs are started on: family, numVar, numCls
RunProblems ==
  { [p |-> 0, numVar |-> 1,  numCls |-> 1],
    [p |-> 2, numVar |-> 50, numCls |-> 3],
    [p |-> 2, numVar |-> 48, numCls |-> 2] }

(***************************************************************************)
(* Hardware registers read by the solver                                   *)
(***************************************************************************)
\* values the sample-done registers can return
DoneVals == {0, 1, 2}
\* values the sampling-time registers can return (ticks)
TimeVals == {100, 1145600, 1145601}
\* values the sampling-time registers can return when read again after the loop
RereadVals == {50, 100}
\* content of output register j of a tile
SmplDout(tl, j) == 100 * (tl + 1) + j

SmplDoneAddr(tl) == <<"SMPL_DONE", tl>>
SmplTimeAddr(tl) == <<"SMPL_TIME", tl>>
SmplDoutAddr(tl, j) == <<"SMPL_DOUT", tl, j>>

\* one readReg(address) transaction and the value it returned
R(addr, val) == <<addr, val>>

NotRead == -1

(***************************************************************************)
(* State                                                                   *)
(***************************************************************************)
VARIABLES
  pc,           \* position of the solver: "idle", "arm", "poll", "record", "returned"
  mode,         \* "none", "single" (runSolverSingle), "coupled" (runSolverCoupled)
  tile,         \* tile argument (TILE_BOTH for a coupled run)
  numRuns,      \* numRuns argument
  runIdx,       \* loop variable i of the run loop
  numVar,       \* from readCNF
  numCls,       \* from readCNF
  numAttempts,  \* local of the run loop
  status,       \* local of the run loop (a register value)
  solved,       \* local of the run loop
  results,      \* content of <filepath>.results: a sequence of records
  globalReg,    \* shadow of the global control register
  sampleReg,    \* shadow of the sampling control register
  wlog,         \* writeReg transactions of the last step
  rlog,         \* readReg transactions of the last step
  hist,         \* history: polls and stale polls of the run, converged polls of the call
  cnfSt,        \* writeCnf clause loop (specification SpecCnf)
  regs,         \* register file of the tiles (specification SpecMem)
  memOp,        \* last tile operation (specifications SpecMem, SpecSmpl)
  br            \* SPI bridge to the embedded core (specifications SpecBridge, SpecFrame, SpecFlash)

runVars == << pc, mode, tile, numRuns, runIdx, numVar, numCls, numAttempts,
              status, solved, results, globalReg, sampleReg, rlog, hist >>
vars == << pc, mode, tile, numRuns, runIdx, numVar, numCls, numAttempts,
           status, solved, results, globalReg, sampleReg, wlog, rlog, hist,
           cnfSt, regs, memOp, br >>

(***************************************************************************)
(* runSolverSingle / runSolverCoupled                                      *)
(***************************************************************************)
\* float time = readReg(SMPL_TIME_ADDR) / (895E3 * 1024 / 8) / (1E-6);
\* time > float(timeout), with both sides scaled by 100 / 1E6
TimeExceeds(ticks) == ticks * 100 > (SMPL_CLK_HZ \div 10000) * timeout

\* the Run bit(s) of the targeted tile(s)
RunBits(tl) ==
  IF tl = TILE_BOTH THEN Shl({RUN}, 16) \cup {RUN} ELSE Shl({RUN}, tl * 16)

\* mutant: the Run bits of both tiles are set
SetRun_BothTiles(m, tl) ==
  LET g == m.g \cup RunBits(TILE_BOTH)
  IN  Emit([m EXCEPT !.g = g], << W(GLBL_CTRL_ADDR, g) >>)

\* globalReg = globalReg | run bits; writeReg(GLBL_CTRL_ADDR, globalReg)
SetRun(m, tl) ==
  LET g == m.g \cup RunBits(tl)
  IN  Emit([m EXCEPT !.g = g], << W(GLBL_CTRL_ADDR, g) >>)

\* mutant: the register is written without clearing the Run bits
ClearRun_Keep(m, tl) == Emit(m, << W(GLBL_CTRL_ADDR, m.g) >>)

\* globalReg = globalReg & ~run bits; writeReg(GLBL_CTRL_ADDR, globalReg)
ClearRun(m, tl) ==
  LET g == m.g \cap Not32(RunBits(tl))
  IN  Emit([m EXCEPT !.g = g], << W(GLBL_CTRL_ADDR, g) >>)

\* setupRXOs; setupSampling; set Run  (lines 822-827, 940-950)
ArmFirst(m, tl, nVar, nCls) ==
  SetRun(SetupSampling(SetupRXOs(m, tl, nVar, nCls), tl, 3,
                       IF tl = TILE_BOTH THEN 2 ELSE 0), tl)

\* mutant: a retry stops the run before it sets the oscillators up again
Rearm_StopFirst(m, tl, nVar, nCls) ==
  SetRun(SetupSampling(SetupRXOs(ClearRun(m, tl), tl, nVar, nCls), tl, 3, 0), tl)

\* mutant: a retry sets up the sampler before the oscillators
Rearm_SamplingFirst(m, tl, nVar, nCls) ==
  SetRun(SetupRXOs(SetupSampling(m, tl, 3, 0), tl, nVar, nCls), tl)

\* setupRXOs; setupSampling; set Run in a retry (lines 849-854, 983-988)
Rearm(m, tl, nVar, nCls) ==
  SetRun(SetupSampling(SetupRXOs(m, tl, nVar, nCls), tl, 3, 0), tl)

\* mutant: the elapsed time is not compared with the timeout
SingleStale_NoTimeout(st, ticks) == st = {}

\* runSolverSingle: is the poll a stale one (lines 841-871)
SingleStale(st, ticks) == IF st # {} THEN TimeExceeds(ticks) ELSE TRUE

\* mutant: logical instead of bitwise AND
CoupledStatus_Logical(doneR, doneL) ==
  IF doneR # 0 /\ doneL # 0 THEN {0} ELSE {}

\* runSolverCoupled: status of a poll (line 962)
CoupledStatus(doneR, doneL) == ToBits(doneR) \cap ToBits(doneL)

\* runSolverCoupled: the elapsed time compared with the timeout (lines 968-977)
CoupledLoopTime(timeR, timeL) == IF timeL > timeR THEN timeL ELSE timeR

\* runSolverCoupled: is the poll a stale one (lines 964-1005)
CoupledStale(st, timeR, timeL) ==
  IF st # {} THEN TimeExceeds(CoupledLoopTime(timeR, timeL)) ELSE TRUE

\* mutant: a retry counts twice
NextAttempts_Double(n, stale) == IF stale THEN n + 2 ELSE n

\* numAttempts after a poll
NextAttempts(n, stale) == IF stale THEN n + 1 ELSE n

\* mutant: the comparison is turned around
CoupledReadTile_LeftIfGreater(timeRight, timeLeft) ==
  IF timeLeft > timeRight THEN TILE_LEFT ELSE TILE_RIGHT

\* runSolverCoupled: the tile whose samples are recorded (lines 1013-1032)
CoupledReadTile(timeRight, timeLeft) ==
  IF timeRight > timeLeft THEN TILE_RIGHT ELSE TILE_LEFT

\* a results file left on the card by an earlier batch of the same problem
OldResults == << [j \in 1..(SMPL_DOUT_WORDS + 2) |-> 9000 + j] >>

\* content of <filepath>.results when a solver call starts
StoredResults == { <<>>, OldResults }

\* mutant: the old results file is kept
DeleteFile_Keep(file) == file

\* deleteFile: the file does not exist afterwards (an empty stream)
DeleteFile(file) == <<>>

\* writeResults: SD.open(FILE_WRITE) positions at the end of the file, the
\* words of data[] are written there
WriteResults(file, data) == Append(file, data)

\* data[] of one record: the output words, the sampling time, the attempts
RecordData(tl, ticks, attempts) ==
  [j \in 1..SMPL_DOUT_WORDS |-> SmplDout(tl, j - 1)] \o << ticks, attempts >>

DoutReads(tl) ==
  [j \in 1..SMPL_DOUT_WORDS |-> R(SmplDoutAddr(tl, j - 1), SmplDout(tl, j - 1))]

\* bitwise AND of two register values
RECURSIVE BitAndNat(_, _)
BitAndNat(a, b) ==
  IF a = 0 \/ b = 0 THEN 0
  ELSE (IF a % 2 = 1 /\ b % 2 = 1 THEN 1 ELSE 0) + 2 * BitAndNat(a \div 2, b \div 2)

\* the done value of a poll: the register of the tile, or the AND of both
DoneAnd(d) ==
  IF d[1] = NotRead THEN d[2]
  ELSE IF d[2] = NotRead THEN d[1]
  ELSE BitAndNat(d[1], d[2])

\* a poll is stale: done unset, or an elapsed time above the timeout
StaleReading(d, t) ==
  DoneAnd(d) = 0 \/ TimeExceeds(t[1]) \/ TimeExceeds(t[2])

\* history of a poll: d = values of the done registers, t = values of the
\* sampling-time registers read in the loop (NotRead when not read)
HistPoll(h, d, t) ==
  [h EXCEPT !.polls = @ + 1, !.done = d, !.time = t,
            !.stale = IF StaleReading(d, t) THEN @ + 1 ELSE @,
            !.conv = IF StaleReading(d, t) THEN @ ELSE @ + 1]

HistInit ==
  [polls |-> 0, stale |-> 0, conv |-> 0,
   done |-> << NotRead, NotRead >>, time |-> << NotRead, NotRead >>,
   reread |-> << NotRead, NotRead >>]

m0 == Mach(globalReg, sampleReg, <<>>)

otherVars == << cnfSt, regs, memOp, br >>

\* runSolverSingle up to the run loop (lines 776-813)
StartSingle(tl, n, prob) ==
  /\ pc = "idle"
  /\ LET m == WriteCnf(SetupClsBias(ResetClsMem(m0, tl), tl, prob.numVar, prob.numCls),
                       tl, prob.numVar, prob.numCls, CnfRows(prob.p, 0, prob.numCls))
     IN  /\ globalReg' = m.g
         /\ sampleReg' = m.s
         /\ wlog' = m.w
  /\ mode' = "single"
  /\ tile' = tl
  /\ numRuns' = n
  /\ numVar' = prob.numVar
  /\ numCls' = prob.numCls
  /\ runIdx' = 0
  /\ results' = DeleteFile(results)
  /\ rlog' = <<>>
  /\ hist' = HistInit
  /\ pc' = IF n > 0 THEN "arm" ELSE "returned"
  /\ UNCHANGED << numAttempts, status, solved, otherVars >>

\* runSolverCoupled up to the run loop (lines 893-936)
StartCoupled(n, prob) ==
  /\ pc = "idle"
  /\ LET numClsR == prob.numCls \div 2
         numClsL == prob.numCls - numClsR
         cnfR == CnfRows(prob.p, 0, numClsR)
         cnfL == CnfRows(prob.p, numClsR, numClsL)
         m1 == ResetClsMem(ResetClsMem(m0, TILE_RIGHT), TILE_LEFT)
         m2 == SetupClsBias(SetupClsBias(m1, TILE_RIGHT, prob.numVar, numClsR),
                            TILE_LEFT, prob.numVar, numClsL)
         m == WriteCnf(WriteCnf(m2, TILE_RIGHT, prob.numVar, numClsR, cnfR),
                       TILE_LEFT, prob.numVar, numClsL, cnfL)
     IN  /\ globalReg' = m.g
         /\ sampleReg' = m.s
         /\ wlog' = m.w
  /\ mode' = "coupled"
  /\ tile' = TILE_BOTH
  /\ numRuns' = n
  /\ numVar' = prob.numVar
  /\ numCls' = prob.numCls
  /\ runIdx' = 0
  /\ results' = DeleteFile(results)
  /\ rlog' = <<>>
  /\ hist' = HistInit
  /\ pc' = IF n > 0 THEN "arm" ELSE "returned"
  /\ UNCHANGED << numAttempts, status, solved, otherVars >>

\* top of the run loop body: locals, first arming (lines 817-827, 940-950)
Arm ==
  /\ pc = "arm"
  /\ LET m == ArmFirst(m0, tile, numVar, numCls)
     IN  /\ globalReg' = m.g
         /\ sampleReg' = m.s
         /\ wlog' = m.w
  /\ numAttempts' = 0
  /\ status' = {}
  /\ solved' = FALSE
  /\ rlog' = <<>>
  /\ hist' = [hist EXCEPT !.polls = 0, !.stale = 0,
                          !.done = << NotRead, NotRead >>,
                          !.time = << NotRead, NotRead >>,
                          !.reread = << NotRead, NotRead >>]
  /\ pc' = "poll"
  /\ UNCHANGED << mode, tile, numRuns, runIdx, numVar, numCls, results, otherVars >>

\* one iteration of while (!solved) (lines 835-872)
PollSingle ==
  /\ pc = "poll"
  /\ mode = "single"
  /\ \E done \in DoneVals :
     \E ticks \in (IF ToBits(done) = {} THEN {NotRead} ELSE TimeVals) :
       LET st == ToBits(done)
           stale == SingleStale(st, ticks)
           m == IF stale THEN Rearm(m0, tile, numVar, numCls) ELSE m0
           t == ticks
       IN  /\ stale => numAttempts < MaxAttempts
           /\ status' = st
           /\ numAttempts' = NextAttempts(numAttempts, stale)
           /\ solved' = ~stale
           /\ globalReg' = m.g
           /\ sampleReg' = m.s
           /\ wlog' = m.w
           /\ rlog' = << R(SmplDoneAddr(tile), done) >>
                        \o (IF st # {} THEN << R(SmplTimeAddr(tile), ticks) >> ELSE <<>>)
           /\ hist' = HistPoll(hist,
                               IF tile = TILE_RIGHT THEN << done, NotRead >>
                                                    ELSE << NotRead, done >>,
                               IF tile = TILE_RIGHT THEN << t, NotRead >>
                                                    ELSE << NotRead, t >>)
           /\ pc' = IF ~stale THEN "record" ELSE "poll"
  /\ UNCHANGED << mode, tile, numRuns, runIdx, numVar, numCls, results, otherVars >>

\* one iteration of while (status == 0) (lines 958-1006)
PollCoupled ==
  /\ pc = "poll"
  /\ mode = "coupled"
  /\ \E doneR \in DoneVals, doneL \in DoneVals :
     \E timeR, timeL \in (IF CoupledStatus(doneR, doneL) = {} THEN {NotRead}
                                                              ELSE TimeVals) :
       LET st == CoupledStatus(doneR, doneL)
           stale == CoupledStale(st, timeR, timeL)
           m == IF stale THEN Rearm(m0, TILE_BOTH, numVar, numCls) ELSE m0
       IN  /\ stale => numAttempts < MaxAttempts
           /\ status' = st
           /\ numAttempts' = NextAttempts(numAttempts, stale)
           /\ solved' = (solved \/ ~stale)
           /\ globalReg' = m.g
           /\ sampleReg' = m.s
           /\ wlog' = m.w
           /\ rlog' = << R(SmplDoneAddr(TILE_RIGHT), doneR),
                         R(SmplDoneAddr(TILE_LEFT), doneL) >>
                        \o (IF st # {}
                              THEN << R(SmplTimeAddr(TILE_LEFT), timeL),
                                      R(SmplTimeAddr(TILE_RIGHT), timeR) >>
                              ELSE <<>>)
           /\ hist' = HistPoll(hist, << doneR, doneL >>,
                               << timeR, timeL >>)
           /\ pc' = IF st = {} THEN "poll" ELSE "record"
  /\ UNCHANGED << mode, tile, numRuns, runIdx, numVar, numCls, results, otherVars >>

\* after the poll loop of runSolverSingle (lines 876-890)
RecordSingle ==
  /\ pc = "record"
  /\ mode = "single"
  /\ \E ticks \in RereadVals :
       /\ results' = WriteResults(results, RecordData(tile, ticks, numAttempts))
       /\ rlog' = << R(SmplTimeAddr(tile), ticks) >> \o DoutReads(tile)
       /\ hist' = [hist EXCEPT !.reread = IF tile = TILE_RIGHT
                                            THEN << ticks, NotRead >>
                                            ELSE << NotRead, ticks >>,
                               !.done = << NotRead, NotRead >>,
                               !.time = << NotRead, NotRead >>]
  /\ LET m == ClearRun(m0, tile)
     IN  /\ globalReg' = m.g
         /\ sampleReg' = m.s
         /\ wlog' = m.w
  /\ runIdx' = runIdx + 1
  /\ pc' = IF runIdx + 1 < numRuns THEN "arm" ELSE "returned"
  /\ UNCHANGED << mode, tile, numRuns, numVar, numCls, numAttempts, status,
                  solved, otherVars >>

\* after the poll loop of runSolverCoupled (lines 1008-1037)
RecordCoupled ==
  /\ pc = "record"
  /\ mode = "coupled"
  /\ \E timeRight \in RereadVals, timeLeft \in RereadVals :
       LET src == CoupledReadTile(timeRight, timeLeft)
           ticks == IF src = TILE_RIGHT THEN timeRight ELSE timeLeft
       IN  /\ results' = WriteResults(results, RecordData(src, ticks, numAttempts))
           /\ rlog' = << R(SmplTimeAddr(TILE_RIGHT), timeRight),
                         R(SmplTimeAddr(TILE_LEFT), timeLeft) >> \o DoutReads(src)
           /\ hist' = [hist EXCEPT !.reread = << timeRight, timeLeft >>,
                                   !.done = << NotRead, NotRead >>,
                                   !.time = << NotRead, NotRead >>]
  /\ LET m == ClearRun(m0, TILE_BOTH)
     IN  /\ globalReg' = m.g
         /\ sampleReg' = m.s
         /\ wlog' = m.w
  /\ runIdx' = runIdx + 1
  /\ pc' = IF runIdx + 1 < numRuns THEN "arm" ELSE "returned"
  /\ UNCHANGED << mode, tile, numRuns, numVar, numCls, numAttempts, status,
                  solved, otherVars >>

\* the caller goes on to the next problem file (ksat/src/main.cpp, setup)
NextFile ==
  /\ pc = "returned"
  /\ pc' = "idle"
  /\ mode' = "none"
  /\ tile' = TILE_RIGHT
  /\ numRuns' = 0
  /\ runIdx' = 0
  /\ numVar' = 0
  /\ numCls' = 0
  /\ numAttempts' = 0
  /\ status' = {}
  /\ solved' = FALSE
  /\ results' \in StoredResults
  /\ wlog' = <<>>
  /\ rlog' = <<>>
  /\ hist' = HistInit
  /\ UNCHANGED << globalReg, sampleReg, otherVars >>

Init ==
  /\ pc = "idle"
  /\ mode = "none"
  /\ tile = TILE_RIGHT
  /\ numRuns = 0
  /\ runIdx = 0
  /\ numVar = 0
  /\ numCls = 0
  /\ numAttempts = 0
  /\ status = {}
  /\ solved = FALSE
  /\ results \in StoredResults
  /\ globalReg = {}
  /\ sampleReg = {}
  /\ wlog = <<>>
  /\ rlog = <<>>
  /\ hist = HistInit
  /\ cnfSt = [phase |-> "none"]
  /\ regs = <<>>
  /\ memOp = <<>>
  /\ br = [phase |-> "none"]

Next ==
  \/ \E tl \in Tiles, n \in 0..MaxRuns, prob \in RunProblems : StartSingle(tl, n, prob)
  \/ \E n \in 0..MaxRuns, prob \in RunProblems : StartCoupled(n, prob)
  \/ Arm
  \/ PollSingle
  \/ PollCoupled
  \/ RecordSingle
  \/ RecordCoupled
  \/ NextFile

Spec == Init /\ [][Next]_vars

(***************************************************************************)
(* Properties of the solver run state machine                              *)
(***************************************************************************)
AttemptsIdx == SMPL_DOUT_WORDS + 2
TimeIdx == SMPL_DOUT_WORDS + 1

\* this step is one iteration of the poll loop
PollStep == hist'.polls = hist.polls + 1
\* this step of a solver call persists a record
RecordStep == mode' # "none" /\ Len(results') > Len(results)

\* the step ends with the tile(s) re-armed: oscillators pulsed, sampling
\* configured, and the Run bit(s) written last
RearmedStep(tl) ==
  /\ wlog' # <<>>
  /\ wlog'[Len(wlog')] = W(GLBL_CTRL_ADDR, globalReg')
  /\ RunBits(tl) \subseteq globalReg'
  /\ \E k \in 1..Len(wlog') : wlog'[k][1] = SMPL_CTRL_ADDR
  /\ \A t \in (IF tl = TILE_BOTH THEN Tiles ELSE {tl}) :
       \E k \in 1..Len(wlog') : wlog'[k] = W(WLAddr(t, RXO_WL_WORD), {0, 1, 3, 4})

\* C1: runSolverSingle persists a record only when the last poll read done
\* non-zero and an elapsed time not above the timeout; a stale poll (done
\* unset, or elapsed time above the timeout) persists nothing and is followed
\* by a re-arm and a further poll.
C1_SingleRecordsOnlyConvergedPoll ==
  [][ mode = "single" =>
        /\ RecordStep =>
             /\ pc = "record"
             /\ hist.polls > 0
             /\ hist.done[tile + 1] > 0
             /\ hist.time[tile + 1] # NotRead
             /\ ~TimeExceeds(hist.time[tile + 1])
        /\ (PollStep /\ (hist'.done[tile + 1] = 0 \/ TimeExceeds(hist'.time[tile + 1]))) =>
             /\ pc' = "poll"
             /\ results' = results
             /\ RearmedStep(tile) ]_vars

\* a single-tile record was persisted after one stale poll and a converged one
C1_Witness ==
  /\ mode = "single"
  /\ Len(results) = 1
  /\ results[1][AttemptsIdx] = 1

\* C2: runSolverCoupled persists a record only when the last poll found both
\* tiles done and the longer elapsed time not above the timeout; a done poll
\* with an elapsed time above the timeout is polled again after the re-arm.
C2_CoupledRecordsOnlyConvergedPoll ==
  [][ mode = "coupled" =>
        /\ RecordStep =>
             /\ pc = "record"
             /\ BitAndNat(hist.done[1], hist.done[2]) # 0
             /\ ~TimeExceeds(hist.time[1])
             /\ ~TimeExceeds(hist.time[2])
        /\ (PollStep /\ (TimeExceeds(hist'.time[1]) \/ TimeExceeds(hist'.time[2]))) =>
             /\ pc' = "poll"
             /\ results' = results ]_vars

\* C3: numAttempts is 0 when a run is armed, grows by exactly 1 on each stale
\* poll and changes on no other step of the run; the attempt count of the
\* record is the number of stale polls of the run.
C3_AttemptsCountStalePolls ==
  [][ /\ (pc = "arm" /\ pc' = "poll") => numAttempts' = 0
      /\ PollStep =>
           numAttempts' = numAttempts
                            + (IF StaleReading(hist'.done, hist'.time) THEN 1 ELSE 0)
      /\ (pc \in {"poll", "record"} /\ ~PollStep) => numAttempts' = numAttempts
      /\ RecordStep =>
           /\ results'[Len(results')][AttemptsIdx] = hist.stale
           /\ hist.stale = numAttempts ]_vars

\* a record persisted after two stale polls
C3_Witness ==
  /\ results # <<>>
  /\ results[Len(results)][AttemptsIdx] = 2

\* C4: as long as no poll of the call has converged (done never set, or every
\* elapsed time above the timeout) no record is persisted and the call has
\* not returned.
C4_NoRecordWithoutConvergedPoll ==
  (mode \in {"single", "coupled"} /\ numRuns > 0 /\ hist.conv = 0)
    => (results = <<>> /\ pc # "returned")

C6_CoupledDoneIsBitwiseAnd ==
  [][ (mode = "coupled" /\ PollStep) =>
        LET dR == hist'.done[1]
            dL == hist'.done[2]
        IN  /\ (status' # {}) <=> (BitAndNat(dR, dL) # 0)
            /\ (BitAndNat(dR, dL) # 0) => hist'.time[1] # NotRead
            /\ (BitAndNat(dR, dL) = 0) =>
                 /\ hist'.time = << NotRead, NotRead >>
                 /\ numAttempts' = numAttempts + 1
                 /\ ~solved'
                 /\ pc' = "poll"
                 /\ results' = results
                 /\ RearmedStep(TILE_BOTH)
            /\ (dR = 0 \/ dL = 0) => BitAndNat(dR, dL) = 0 ]_vars

\* a coupled poll with both done registers non-zero and no common bit was stale
C6_Witness ==
  /\ mode = "coupled"
  /\ pc = "poll"
  /\ hist.done = << 1, 2 >>
  /\ numAttempts = 1

\* C11: the step that persists a run's record clears the Run bit(s) of the
\* targeted tile(s) in the shadow and writes the shadow to the Global Control
\* Register; the Run bits are clear whenever a run is about to be armed and
\* when the solver has returned.
C11_RunBitsClearedAfterRecord ==
  [][ /\ RecordStep =>
           /\ RunBits(tile) \cap globalReg' = {}
           /\ wlog' # <<>>
           /\ wlog'[Len(wlog')] = << <<"GLBL_CTRL">>, globalReg' >>
           /\ \A k \in 1..Len(wlog') :
                wlog'[k][1] = <<"GLBL_CTRL">> => RunBits(tile) \cap wlog'[k][2] = {}
           /\ pc' \in {"arm", "returned"}
      /\ pc' \in {"arm", "returned"} => RunBits(tile') \cap globalReg' = {} ]_vars

\* the second run of a coupled call is about to be armed, after a first run
\* that was re-armed at least once
C11_Witness ==
  /\ mode = "coupled"
  /\ pc = "arm"
  /\ runIdx = 1
  /\ Len(results) = 1
  /\ results[1][AttemptsIdx] > 0
  /\ RunBits(TILE_BOTH) \cap globalReg = {}

(***************************************************************************)
(* Specification SpecSingle: calls of runSolverSingle under the scheduling  *)
(* of a sequential program (a call that has started keeps executing)       *)
(***************************************************************************)
\* the problem of the single-tile runs
SingleProblems == { [p |-> 0, numVar |-> 1, numCls |-> 1] }

NextSingle ==
  \/ \E tl \in Tiles, n \in 0..MaxRuns, prob \in SingleProblems : StartSingle(tl, n, prob)
  \/ Arm
  \/ PollSingle
  \/ RecordSingle
  \/ NextFile

SpecSingle ==
  /\ Init
  /\ [][NextSingle]_vars
  /\ WF_vars(Arm)
  /\ WF_vars(PollSingle)
  /\ WF_vars(RecordSingle)

\* the value that a sequence of readReg transactions returned for an address
ReadValue(log, addr) ==
  LET k == CHOOSE n \in 1..Len(log) : log[n][1] = addr IN log[k][2]

\* C12: when every run converges, a call of runSolverSingle with N runs
\* returns; its first step empties the results stream whatever an earlier
\* batch left there, each run appends one record (the SMPL_DOUT_WORDS output
\* words read from the tile, then the elapsed-time ticks, then the attempt
\* count), and on return the stream holds exactly the N records.
C12_SingleReturnsWithNRecords ==
  /\ (mode = "single") ~> (mode = "single" /\ pc = "returned")
  /\ [](mode = "single" /\ pc = "returned" => Len(results) = numRuns)
  /\ [][ /\ (pc = "idle" /\ mode' = "single") => results' = <<>>
         /\ (mode = "single" /\ mode' = "single") =>
              \/ results' = results
              \/ /\ pc = "record"
                 /\ Len(results) = runIdx
                 /\ Len(results') = runIdx + 1
                 /\ \A k \in 1..runIdx : results'[k] = results[k]
                 /\ LET rec == results'[runIdx + 1]
                    IN  /\ Len(rec) = SMPL_DOUT_WORDS + 2
                        /\ \A j \in 1..SMPL_DOUT_WORDS :
                             rec[j] = ReadValue(rlog', << "SMPL_DOUT", tile, j - 1 >>)
                        /\ rec[SMPL_DOUT_WORDS + 1] =
                             ReadValue(rlog', << "SMPL_TIME", tile >>)
                        /\ rec[SMPL_DOUT_WORDS + 2] = numAttempts ]_vars

\* a single-tile call of two runs has returned with two different records
C12_Witness ==
  /\ mode = "single"
  /\ pc = "returned"
  /\ numRuns = 2
  /\ Len(results) = 2
  /\ results[1] # results[2]
  /\ results[2][AttemptsIdx] > 0

(***************************************************************************)
(* Specification SpecReject: the solver calls on problems that cannot be   *)
(* read or that exceed the tile capacity                                   *)
(***************************************************************************)
\* readCNF on a file that cannot be opened leaves numVar = 0, numCls = 0 and
\* the cnf array zeroed; a file with more than CNF_MAX_CLS clauses gives
\* numCls above the capacity (the rows past the array are whatever the
\* memory holds: two families stand for them)
BadProblems ==
  { [p |-> 0, numVar |-> 0, numCls |-> 0],
    [p |-> 0, numVar |-> 1, numCls |-> CNF_MAX_CLS + 1],
    [p |-> 2, numVar |-> 50, numCls |-> CNF_MAX_CLS + 1] }

NextReject ==
  \/ \E tl \in Tiles, n \in 0..MaxRuns, prob \in BadProblems : StartSingle(tl, n, prob)
  \/ \E n \in 0..MaxRuns, prob \in BadProblems : StartCoupled(n, prob)
  \/ Arm
  \/ PollSingle
  \/ PollCoupled
  \/ RecordSingle
  \/ RecordCoupled
  \/ NextFile

SpecReject == Init /\ [][NextReject]_vars

\* C13: a call on a problem that could not be read (numCls = 0) or whose
\* numCls exceeds the capacity issues no writeReg and starts no run.
C13_BadProblemRejected ==
  [][ (pc = "idle" /\ mode' # "none" /\ (numCls' = 0 \/ numCls' > CNF_MAX_CLS)) =>
        /\ wlog' = <<>>
        /\ pc' = "returned" ]_vars

(***************************************************************************)
(* Specification SpecCnf: writeCnf on one tile, one clause per step        *)
(***************************************************************************)
\* clause counts the clause loop is run for
NumClsVals ==
  {0, 1, 2, 3, HALF_CLS - 1, HALF_CLS, HALF_CLS + 1, CNF_MAX_CLS}

\* reserved (non-clause) bits of a word-line word: the reset indicators
ReservedWLBits(w) ==
  IF w = 0 THEN {0} ELSE IF w = WL_WORDS - 1 THEN {31} ELSE {}

\* the word lines of a tile that a sequence of writes asserts
AssertedWLs(log, tl) ==
  UNION { { 32 * log[k][1][3] + b : b \in log[k][2] \ ReservedWLBits(log[k][1][3]) } :
          k \in { n \in 1..Len(log) : log[n][1][1] = "WL" /\ log[n][1][2] = tl } }

runIdle ==
  /\ pc = "idle"
  /\ mode = "none"
  /\ tile = TILE_RIGHT
  /\ numRuns = 0
  /\ runIdx = 0
  /\ numVar = 0
  /\ numCls = 0
  /\ numAttempts = 0
  /\ status = {}
  /\ solved = FALSE
  /\ results = <<>>
  /\ globalReg = {}
  /\ sampleReg = {}
  /\ rlog = <<>>
  /\ hist = HistInit

InitCnf ==
  /\ runIdle
  /\ wlog = <<>>
  /\ regs = <<>>
  /\ memOp = <<>>
  /\ br = [phase |-> "none"]
  /\ \E tl \in Tiles, p \in ProblemIds, n \in NumClsVals :
       cnfSt = [phase |-> "disable", tile |-> tl, p |-> p, numCls |-> n, i |-> 0,
                lits |-> <<>>, bl |-> EncodeClause(<<>>), pulsed |-> <<>>]

\* writeCnf before the clause loop: disableCls(tile) (line 612)
CnfDisable ==
  /\ cnfSt.phase = "disable"
  /\ wlog' = DisableClsWrites(cnfSt.tile)
  /\ cnfSt' = [cnfSt EXCEPT !.phase = "loop"]
  /\ UNCHANGED << runVars, regs, memOp, br >>

\* one iteration of the clause loop of writeCnf (lines 615-671)
CnfClause ==
  /\ cnfSt.phase = "loop"
  /\ cnfSt.i < cnfSt.numCls
  /\ LET lits == CnfRow(cnfSt.p, cnfSt.i)
         ws == ClauseWrites(cnfSt.tile, cnfSt.i, lits)
     IN  /\ wlog' = ws
         /\ cnfSt' = [cnfSt EXCEPT !.i = @ + 1, !.lits = lits,
                                   !.bl = EncodeClause(lits),
                                   !.pulsed = Append(@, AssertedWLs(ws, cnfSt.tile))]
  /\ UNCHANGED << runVars, regs, memOp, br >>

NextCnf == CnfDisable \/ CnfClause

SpecCnf == InitCnf /\ [][NextCnf]_vars

\* the clause loop has programmed clause index cnfSt.i - 1
ClauseDone == cnfSt.phase = "loop" /\ cnfSt.i > 0

\* C7 (as amended): the word line pulsed for clause i is topBase + i when
\* i < HALF_CLS (half of the tile capacity, whatever numCls is) and
\* bottomBase - (i - HALF_CLS) when i >= HALF_CLS.
C7_WordLineByHalfCapacity ==
  ClauseDone =>
    LET i == cnfSt.i - 1
    IN  cnfSt.pulsed[cnfSt.i] =
          { IF i < HALF_CLS THEN TOP_CLS_START_WL + i
                            ELSE BOT_CLS_START_WL - (i - HALF_CLS) }

\* C7 (as claimed): the halves are split at numCls/2
C7_AsClaimed ==
  ClauseDone =>
    LET i == cnfSt.i - 1
        half == cnfSt.numCls \div 2
    IN  cnfSt.pulsed[cnfSt.i] =
          { IF i < half THEN TOP_CLS_START_WL + i
                        ELSE BOT_CLS_START_WL - (i - half) }

\* a clause of the bottom half of a full tile has been programmed
C7_Witness ==
  /\ ClauseDone
  /\ cnfSt.numCls = CNF_MAX_CLS
  /\ cnfSt.i - 1 > HALF_CLS

\* C8: over the tile capacity the word line pulsed for a clause index differs
\* from the word line pulsed for every other clause index.
C8_WordLinesDistinct ==
  ClauseDone =>
    /\ Cardinality(cnfSt.pulsed[cnfSt.i]) = 1
    /\ \A k \in 1..(cnfSt.i - 1) : cnfSt.pulsed[k] # cnfSt.pulsed[cnfSt.i]

\* all clauses of a full tile have been programmed
C8_Witness ==
  /\ ClauseDone
  /\ cnfSt.i = CNF_MAX_CLS

\* the literals that the bit-line words of a clause decode to: a presence
\* bit 2k+1 of word w gives variable 16w + k + 1, negated when bit 2k is set
DecodeBL(data) ==
  { (IF 2 * k \in data[w] THEN -1 ELSE 1) * (16 * w + k + 1) :
      << w, k >> \in { x \in BLWordIdx \X (0..15) : 2 * x[2] + 1 \in data[x[1]] } }

\* C9: each literal L of a clause sets the presence bit 2*((|L|-1) mod 16)+1
\* of bit-line word (|L|-1)/16, and the polarity bit below it exactly when L
\* is negative; no other variable has that (word, bit) pair; the programmed
\* words decode to exactly the literals of the clause.
C9_LiteralEncoding ==
  ClauseDone =>
    /\ \A n \in 1..Len(cnfSt.lits) :
         LET L == cnfSt.lits[n]
             v == IF L < 0 THEN -L ELSE L
             w == (v - 1) \div 16
             b == 2 * ((v - 1) % 16)
         IN  /\ cnfSt.bl.used[w]
             /\ (b + 1) \in cnfSt.bl.data[w]
             /\ (b \in cnfSt.bl.data[w]) <=> (L < 0)
             /\ LitWord(L) = w /\ LitBit(L) = b
             /\ \A u \in 1..MaxVarIdx :
                  u # v => << LitWord(u), LitBit(u) >> # << w, b >>
             /\ W(BLAddr(cnfSt.tile, w), cnfSt.bl.data[w])
                  \in { wlog[k] : k \in 1..Len(wlog) }
    /\ DecodeBL(cnfSt.bl.data) = { cnfSt.lits[n] : n \in 1..Len(cnfSt.lits) }
    /\ \A w \in BLWordIdx : \A k \in 0..15 :
         (2 * k) \in cnfSt.bl.data[w] => (2 * k + 1) \in cnfSt.bl.data[w]

\* a clause with several literals, negative ones among them, has been programmed
C9_Witness ==
  /\ ClauseDone
  /\ Len(cnfSt.lits) = CNF_MAX_K
  /\ \E n \in 1..Len(cnfSt.lits) : cnfSt.lits[n] < 0
  /\ \E n \in 1..Len(cnfSt.lits) : cnfSt.lits[n] > 0

(***************************************************************************)
(* Specification SpecMem: the clause-memory operations on the word-line    *)
(* and bit-line registers of the two tiles                                 *)
(***************************************************************************)
\* number of memory operations in one behaviour
MaxMemOps == 2

MemAddrs ==
  { WLAddr(t, i) : t \in Tiles, i \in 0..(WL_WORDS - 1) }
    \cup { BLAddr(t, i) : t \in Tiles, i \in 0..(BL_WORDS - 1) }

\* register contents before the first write: unknown, drawn from patterns
PowerOnRegs ==
  { [a \in MemAddrs |-> {}],
    [a \in MemAddrs |-> BitIdx],
    [a \in MemAddrs |-> IF a[3] % 2 = 0 THEN {0, 7, 31} ELSE {16}] }

\* the registers after a sequence of writeReg calls
RECURSIVE ApplyWritesFrom(_, _, _)
ApplyWritesFrom(rg, log, k) ==
  IF k > Len(log) THEN rg
  ELSE ApplyWritesFrom(IF log[k][1] \in MemAddrs
                         THEN [rg EXCEPT ![log[k][1]] = log[k][2]]
                         ELSE rg,
                       log, k + 1)

ApplyWrites(rg, log) == ApplyWritesFrom(rg, log, 1)

MemNumClsVals == {1, HALF_CLS + 1, HALF_CLS + SECT_CLS + 1}
MemNumVarVals == {1, 17, 50}

InitMem ==
  /\ runIdle
  /\ wlog = <<>>
  /\ cnfSt = [phase |-> "none"]
  /\ regs \in PowerOnRegs
  /\ memOp = [op |-> "none", tile |-> TILE_RIGHT, n |-> 0,
              prevOp |-> "none", prevTile |-> TILE_RIGHT, prevLog |-> <<>>]
  /\ br = [phase |-> "none"]

\* one operation on the clause memory: m is the machine after the call
MemStep(op, tl, m) ==
  /\ memOp.n < MaxMemOps
  /\ wlog' = m.w
  /\ regs' = ApplyWrites(regs, m.w)
  /\ globalReg' = m.g
  /\ memOp' = [op |-> op, tile |-> tl, n |-> memOp.n + 1,
               prevOp |-> memOp.op, prevTile |-> memOp.tile,
               prevLog |-> IF memOp.op = "reset" THEN wlog ELSE <<>>]
  /\ UNCHANGED << pc, mode, tile, numRuns, runIdx, numVar, numCls, numAttempts,
                  status, solved, results, sampleReg, rlog, hist, cnfSt, br >>

MemReset ==
  \E tl \in Tiles : MemStep("reset", tl, ResetClsMem(m0, tl))

MemSetupClsBias ==
  \E tl \in Tiles, nc \in MemNumClsVals :
    MemStep("bias", tl, SetupClsBias(m0, tl, 1, nc))

MemDisableCls ==
  \E tl \in Tiles : MemStep("disable", tl, DisableCls(m0, tl))

MemSetupRXOs ==
  \E tl \in Tiles \cup {TILE_BOTH}, nv \in MemNumVarVals :
    MemStep("rxo", tl, SetupRXOs(m0, tl, nv, 1))

MemWriteCnf ==
  \E tl \in Tiles, prob \in RunProblems :
    MemStep("cnf", tl,
            WriteCnf(m0, tl, prob.numVar, prob.numCls,
                     CnfRows(prob.p, 0, prob.numCls)))

NextMem ==
  \/ MemReset
  \/ MemSetupClsBias
  \/ MemDisableCls
  \/ MemSetupRXOs
  \/ MemWriteCnf

SpecMem == InitMem /\ [][NextMem]_vars

\* the last operation was resetClsMem
ResetDone == memOp.op = "reset"

\* the write sequence of a reset of tile tl, written out: every word-line
\* word, every bit-line word, then the two reset-indicator words
ExpectedResetLog(tl) ==
  [k \in 1..(WL_WORDS + BL_WORDS + 2) |->
     IF k <= WL_WORDS THEN << <<"WL", tl, k - 1>>, {} >>
     ELSE IF k <= WL_WORDS + BL_WORDS THEN << <<"BL", tl, k - WL_WORDS - 1>>, {} >>
     ELSE IF k = WL_WORDS + BL_WORDS + 1 THEN << <<"WL", tl, 0>>, {0} >>
     ELSE << <<"WL", tl, WL_WORDS - 1>>, {31} >>]

\* C10: resetClsMem(tile) issues the same sequence of register writes whatever
\* the prior state, so a reset that follows a reset of the same tile repeats
\* its write sequence, and afterwards every word-line and bit-line word of the
\* tile is 0 except word-line word 0 = 0x00000001 and the last word-line
\* word = 0x80000000.
C10_ResetWritesAndFinalState ==
  ResetDone =>
    /\ wlog = ExpectedResetLog(memOp.tile)
    /\ (memOp.prevOp = "reset" /\ memOp.prevTile = memOp.tile)
         => wlog = memOp.prevLog
    /\ \A i \in 0..(WL_WORDS - 1) :
         regs[<<"WL", memOp.tile, i>>] =
           (IF i = 0 THEN {0} ELSE IF i = WL_WORDS - 1 THEN {31} ELSE {})
    /\ \A i \in 0..(BL_WORDS - 1) : regs[<<"BL", memOp.tile, i>>] = {}

\* a tile is reset twice in succession while the other tile still holds
\* non-zero bit-line words
C10_Witness ==
  /\ ResetDone
  /\ memOp.prevOp = "reset"
  /\ memOp.prevTile = memOp.tile
  /\ \E i \in 0..(BL_WORDS - 1) :
       regs[<<"BL", 1 - memOp.tile, i>>] # {}

(***************************************************************************)
(* Specification SpecSmpl: calls of setupSampling with any parameters      *)
(***************************************************************************)
\* values of the uint8_t parameters clkDiv and mode: in range, just above the
\* range and the largest value of the type
ClkDivVals == {0, 1, 2, 4, 255}
ModeVals == {0, 2, 3, 4, 255}

InitSmpl ==
  /\ runIdle
  /\ wlog = <<>>
  /\ cnfSt = [phase |-> "none"]
  /\ regs = <<>>
  /\ memOp = [op |-> "none", tile |-> TILE_RIGHT, clkDiv |-> 0, mode |-> 0]
  /\ br = [phase |-> "none"]

\* setupSampling(tile, clkDiv, mode, delay)
SmplSetup ==
  \E tl \in Tiles \cup {TILE_BOTH}, cd \in ClkDivVals, md \in ModeVals :
    LET m == SetupSampling(m0, tl, cd, md)
    IN  /\ sampleReg' = m.s
        /\ wlog' = m.w
        /\ memOp' = [op |-> "sampling", tile |-> tl, clkDiv |-> cd, mode |-> md]
        /\ UNCHANGED << pc, mode, tile, numRuns, runIdx, numVar, numCls, numAttempts,
                        status, solved, results, globalReg, rlog, hist, cnfSt, regs, br >>

NextSmpl == SmplSetup

SpecSmpl == InitSmpl /\ [][NextSmpl]_vars

\* the configuration half-word that setupSampling builds from a clock
\* divider cd and a mode md that are both in range
ConfigBits(cd, md) ==
  {SMPL_RSTB}
    \cup (IF md \in {2, 3} THEN {SMPL_MODE} ELSE {})
    \cup (IF md \in {1, 3} THEN {ERRB_MODE} ELSE {})
    \cup (IF cd \in {2, 3} THEN {CLK_DIV1} ELSE {})
    \cup (IF cd \in {1, 3} THEN {CLK_DIV0} ELSE {})

\* the sampling register of the targeted tile(s) holds the configuration cfg
\* after the call and the call wrote it and the hold time(s)
SamplingDoneWith(cfg) ==
  LET tl == memOp'.tile
      halves == IF tl = TILE_BOTH THEN Tiles ELSE {tl}
  IN  /\ \A t \in halves :
           { b \in 0..15 : (b + 16 * t) \in sampleReg' } = cfg
      /\ \A t \in Tiles \ halves :
           { b \in 0..15 : (b + 16 * t) \in sampleReg' }
             = { b \in 0..15 : (b + 16 * t) \in sampleReg }
      /\ Len(wlog') = 2 + Cardinality(halves)
      /\ wlog'[2] = << <<"SMPL_CTRL">>, sampleReg' >>
      /\ \A t \in halves :
           << <<"HOLD_TIME", t>>, ToBits(holdTime) >>
             \in { wlog'[k] : k \in 3..Len(wlog') }

MaxCalls == 2

\* the mailbox in the memory of the core
COMM_BUFFER_ADDR == 524544
COMM_STATUS_ADDR == COMM_BUFFER_ADDR
COMM_COMMAND_ADDR == COMM_BUFFER_ADDR + 4
COMM_DATA_ADDR == COMM_BUFFER_ADDR + 8
COMM_RESULT_ADDR == COMM_BUFFER_ADDR + 12
CommAddrs == {COMM_STATUS_ADDR, COMM_COMMAND_ADDR, COMM_DATA_ADDR, COMM_RESULT_ADDR}

\* status values; a 32-bit word is the set of its one bits
COMM_READY == ToBits(170)
COMM_ACK == ToBits(85)
COMM_BUSY == ToBits(187)
COMM_ERROR == ToBits(238)
\* the status value that the polling loop of sendPulpinoCommand waits for
StatusComplete == ToBits(2)
AllOnes == BitIdx

\* 32-bit addition and multiplication (unsigned int arithmetic of the core)
RECURSIVE Add32(_, _)
Add32(a, b) ==
  IF b = {} THEN a
  ELSE Add32((a \cup b) \ (a \cap b), Shl(a \cap b, 1))

RECURSIVE MulFrom(_, _, _)
MulFrom(a, b, k) ==
  IF k > 31 THEN {}
  ELSE Add32(IF k \in b THEN Shl(a, k) ELSE {}, MulFrom(a, b, k + 1))

Mul32(a, b) == MulFrom(a, b, 0)

\* the switch of blink.c: the result of command cmd on operand data
CoreResult(cmd, data) ==
  IF cmd = ToBits(1) THEN data
  ELSE IF cmd = ToBits(2) THEN Add32(data, ToBits(1))
  ELSE IF cmd = ToBits(3) THEN Mul32(data, data)
  ELSE AllOnes

\* the status that blink.c leaves after command cmd
CoreFinalStatus(cmd) ==
  IF cmd \in {ToBits(1), ToBits(2), ToBits(3)} THEN COMM_ACK ELSE COMM_ERROR

\* the clock of millis(), scaled: it counts modulo ClockMod (2^32 in the
\* program) and one pass of the polling loop takes PollTicks (delay(10)) to
\* MaxPollTicks (delay(10) and the SPI read) ticks
ClockMod == 8
PollTicks == 2
MaxPollTicks == 3
ElapsedCap == 2 * ClockMod

\* mutant: the difference of the clock samples as signed numbers
ClockDiff_Signed(now, start) == now - start

\* (millis() - startTime) in unsigned arithmetic
ClockDiff(now, start) == (now - start + ClockMod) % ClockMod

\* cores: the program of blink.c, a core that runs no program, and a core
\* that runs another image
CoreKinds == {"blink", "halted", "other"}

\* status words that a core without the program of blink.c can hold
OtherStatusVals == {ToBits(0), COMM_READY, StatusComplete}
HaltedStatusVals == {ToBits(0), COMM_ACK, StatusComplete}

\* operands and commands of the calls
DataVals == {ToBits(0), ToBits(7), ToBits(305419896), AllOnes}
CommandVals == {ToBits(1), ToBits(2), ToBits(3), ToBits(4)}

BrMem(st) ==
  [a \in CommAddrs |-> IF a = COMM_STATUS_ADDR THEN st ELSE {}]

\* the bridge before a call of sendPulpinoCommand
BrStart(core, st, now, old, calls) ==
  [phase |-> "ready", core |-> core, corePc |-> "loop", coreCmd |-> {},
   mem |-> BrMem(st), command |-> {}, data |-> {}, timeoutMs |-> 0,
   result |-> old, ret |-> "none", startTime |-> 0, now |-> now, elapsed |-> 0,
   writes |-> <<>>, reads |-> {}, calls |-> calls]

InitBridgeWith(starts) ==
  /\ runIdle
  /\ wlog = <<>>
  /\ cnfSt = [phase |-> "none"]
  /\ regs = <<>>
  /\ memOp = <<>>
  /\ \E core \in CoreKinds, now \in starts :
       \E st \in (IF core = "blink" THEN {COMM_READY}
                  ELSE IF core = "halted" THEN HaltedStatusVals
                  ELSE OtherStatusVals) :
         br = BrStart(core, st, now, ToBits(9), 0)

brFrame ==
  UNCHANGED << pc, mode, tile, numRuns, runIdx, numVar, numCls, numAttempts, status,
               solved, results, globalReg, sampleReg, wlog, rlog, hist, cnfSt, regs,
               memOp >>

\* mutant: an acknowledged earlier command counts as ready
StatusReady_OrAck(st) == st \in {COMM_READY, COMM_ACK}

\* the check of the status before the command is issued
StatusReady(st) == st = COMM_READY

\* sendPulpinoCommand up to the start of the polling loop
SendIssue(cmds, datas, tmos) ==
  /\ br.phase = "ready"
  /\ \E command \in cmds, data \in datas, timeoutMs \in tmos :
       LET st == br.mem[COMM_STATUS_ADDR]
       IN  IF ~ StatusReady(st)
           THEN br' = [br EXCEPT !.phase = "returned", !.ret = "false",
                                 !.command = command, !.data = data,
                                 !.timeoutMs = timeoutMs,
                                 !.reads = {COMM_STATUS_ADDR}, !.writes = <<>>,
                                 !.calls = @ + 1]
           ELSE br' = [br EXCEPT !.phase = "poll",
                                 !.command = command, !.data = data,
                                 !.timeoutMs = timeoutMs,
                                 !.mem = [@ EXCEPT ![COMM_DATA_ADDR] = data,
                                                   ![COMM_COMMAND_ADDR] = command],
                                 !.reads = {COMM_STATUS_ADDR},
                                 !.writes = << <<COMM_DATA_ADDR, data>>,
                                               <<COMM_COMMAND_ADDR, command>> >>,
                                 !.startTime = br.now, !.elapsed = 0,
                                 !.calls = @ + 1]
  /\ brFrame

\* one evaluation of the loop condition and, if it holds, one pass of the
\* polling loop; the return after the loop
SendPoll ==
  /\ br.phase = "poll"
  /\ IF ~ (ClockDiff(br.now, br.startTime) < br.timeoutMs)
     THEN br' = [br EXCEPT !.phase = "returned", !.ret = "false"]
     ELSE IF br.mem[COMM_STATUS_ADDR] = StatusComplete
          THEN br' = [br EXCEPT !.phase = "returned", !.ret = "true",
                                !.result = br.mem[COMM_RESULT_ADDR],
                                !.reads = @ \cup {COMM_RESULT_ADDR}]
          ELSE \E d \in PollTicks..MaxPollTicks :
                 br' = [br EXCEPT !.now = (@ + d) % ClockMod,
                                  !.elapsed = IF @ + d > ElapsedCap
                                              THEN ElapsedCap ELSE @ + d]
  /\ brFrame

\* the caller calls again
SendAgain ==
  /\ br.phase = "returned"
  /\ br.calls < MaxCalls
  /\ br' = [br EXCEPT !.phase = "ready", !.ret = "none", !.writes = <<>>,
                      !.reads = {}]
  /\ brFrame

\* blink.c: the main loop finds a command and sets the status to busy
CoreTake ==
  /\ br.core = "blink"
  /\ br.corePc = "loop"
  /\ br.mem[COMM_COMMAND_ADDR] # {}
  /\ br' = [br EXCEPT !.corePc = "busy", !.coreCmd = br.mem[COMM_COMMAND_ADDR],
                      !.mem = [@ EXCEPT ![COMM_STATUS_ADDR] = COMM_BUSY]]
  /\ brFrame

\* blink.c: the switch, the final status and the clearing of the command
CoreFinish ==
  /\ br.core = "blink"
  /\ br.corePc = "busy"
  /\ br' = [br EXCEPT !.corePc = "loop",
                      !.mem = [@ EXCEPT
                                 ![COMM_RESULT_ADDR] =
                                     CoreResult(br.coreCmd, br.mem[COMM_DATA_ADDR]),
                                 ![COMM_STATUS_ADDR] = CoreFinalStatus(br.coreCmd),
                                 ![COMM_COMMAND_ADDR] = {}]]
  /\ brFrame

\* another image on the core changes the status and the result
CoreOther ==
  /\ br.core = "other"
  /\ br.phase = "poll"
  /\ \E st \in OtherStatusVals \ {br.mem[COMM_STATUS_ADDR]} :
       br' = [br EXCEPT !.mem = [@ EXCEPT ![COMM_STATUS_ADDR] = st,
                                          ![COMM_RESULT_ADDR] = br.mem[COMM_DATA_ADDR]]]
  /\ brFrame

(***************************************************************************)
(* Specification SpecBridge: calls of sendPulpinoCommand                   *)
(***************************************************************************)
BridgeTimeouts == {0, ClockMod - MaxPollTicks}

InitBridge == InitBridgeWith({0})

SendIssueAny == SendIssue(CommandVals, DataVals, BridgeTimeouts)

NextBridge ==
  \/ SendIssueAny
  \/ SendPoll
  \/ SendAgain
  \/ CoreTake
  \/ CoreFinish
  \/ CoreOther

SpecBridge == InitBridge /\ [][NextBridge]_vars

\* C15: a call that reads a status other than READY returns failure in the
\* same step, writes no mailbox register and leaves *result alone; a core
\* that never reports READY makes every call fail without entering the
\* polling loop.
C15_NotReadyFailsWithoutWrites ==
  [][ /\ (br.phase = "ready" /\ br'.phase # "ready"
            /\ br.mem[COMM_STATUS_ADDR] # COMM_READY) =>
          /\ br'.phase = "returned"
          /\ br'.ret = "false"
          /\ br'.writes = <<>>
          /\ br'.mem = br.mem
          /\ br'.result = br.result
          /\ COMM_RESULT_ADDR \notin br'.reads
      /\ br'.core = "halted" =>
          /\ br'.phase # "poll"
          /\ br'.ret # "true"
          /\ br'.mem = br.mem ]_vars

C15_Witness ==
  /\ br.core = "halted"
  /\ br.phase = "returned"
  /\ br.calls = 2
  /\ br.ret = "false"
  /\ br.data = ToBits(7)
  /\ br.mem[COMM_DATA_ADDR] = {}
  /\ br.result = ToBits(9)

(***************************************************************************)
(* Specification SpecPoll: the polling loop of sendPulpinoCommand with     *)
(* every start time and every timeout                                      *)
(***************************************************************************)
ClockVals == 0..(ClockMod - 1)

InitPoll == InitBridgeWith(ClockVals)

SendIssueTimed == SendIssue({ToBits(1)}, {ToBits(7)}, ClockVals)

NextPoll ==
  \/ SendIssueTimed
  \/ SendPoll
  \/ CoreTake
  \/ CoreFinish
  \/ CoreOther

\* the passes of the loop follow each other without a wait, so a loop that
\* can make a pass makes it
SpecPoll == InitPoll /\ [][NextPoll]_vars /\ WF_vars(SendPoll)

\* the longest timeout whose window no pass of the loop can jump over
MaxSafeTimeout == ClockMod - MaxPollTicks

C17_CommandsSucceed ==
  (/\ br.core = "blink"
   /\ br.phase = "returned"
   /\ br.writes # <<>>
   /\ br.timeoutMs > 0
   /\ br.command \in {ToBits(1), ToBits(2), ToBits(3)}) =>
     /\ br.ret = "true"
     /\ br.result = (IF br.command = ToBits(1) THEN br.data
                     ELSE IF br.command = ToBits(2) THEN Add32(br.data, ToBits(1))
                     ELSE Mul32(br.data, br.data))

(***************************************************************************)
(* The SPI transactions of the bridge: events on the chip-select line and  *)
(* the bytes sent (TX) and received (RX).  A word is the tuple of its four *)
(* bytes, most significant first.                                          *)
(***************************************************************************)
Cs(level) == <<"CS", level>>
Tx(byte) == <<"TX", byte>>
Rx(byte) == <<"RX", byte>>

\* (w >> (8 * k)) & 0xFF
ByteOf(w, k) == w[4 - k]

\* the four bytes of a word in the order in which they are sent
WordBytes(w) == << Tx(ByteOf(w, 3)), Tx(ByteOf(w, 2)), Tx(ByteOf(w, 1)), Tx(ByteOf(w, 0)) >>

\* the length field of the register transactions
LengthBytes == << Tx(0), Tx(0), Tx(0), Tx(4) >>

\* four bytes received: the first one is shifted to the top of the word
ReceiveBytes(miso) == << Rx(miso[1]), Rx(miso[2]), Rx(miso[3]), Rx(miso[4]) >>
ReceiveWord(miso) == << miso[1], miso[2], miso[3], miso[4] >>

pulpinoSpiBegin == << Cs(1) >>
pulpinoSpiEnd == << Cs(1) >>

writePulpinoMemory(address, value) ==
  pulpinoSpiBegin \o << Cs(1), Cs(0), Tx(1) >> \o WordBytes(address)
    \o WordBytes(value) \o << Cs(1) >> \o pulpinoSpiEnd

writePulpinoRegister(address, value) ==
  pulpinoSpiBegin \o << Cs(0), Tx(2) >> \o WordBytes(address)
    \o LengthBytes \o WordBytes(value) \o pulpinoSpiEnd

readPulpinoMemory(address, miso) ==
  pulpinoSpiBegin \o << Cs(1), Cs(0), Tx(11) >> \o WordBytes(address)
    \o << Tx(0) >> \o ReceiveBytes(miso) \o << Cs(1) >> \o pulpinoSpiEnd

readPulpinoRegister(address, miso) ==
  pulpinoSpiBegin \o << Cs(0), Tx(11) >> \o WordBytes(address)
    \o LengthBytes \o << Tx(0) >> \o ReceiveBytes(miso) \o pulpinoSpiEnd

(***************************************************************************)
(* Specification SpecFrame: one transaction of each kind                   *)
(***************************************************************************)
\* addresses 0x00000001, COMM_BUFFER_ADDR and 0xFFFFFFFF; data words 0,
\* 0x12345678 and 0xFFFFFFFF; bytes received
SpiAddrs == { <<0, 0, 0, 1>>, <<0, 8, 1, 0>>, <<255, 255, 255, 255>> }
SpiValues == { <<0, 0, 0, 0>>, <<18, 52, 86, 120>>, <<255, 255, 255, 255>> }
MisoBytes == {0, 170, 255}

InitFrame ==
  /\ runIdle
  /\ wlog = <<>>
  /\ cnfSt = [phase |-> "none"]
  /\ regs = <<>>
  /\ memOp = <<>>
  /\ br = [phase |-> "spi", op |-> "none", address |-> <<0, 0, 0, 0>>,
           value |-> <<0, 0, 0, 0>>, events |-> <<>>, cs |-> 1]

\* the transaction ev on address; value is the word written or read
FrameStep(op, address, value, ev) ==
  /\ br.phase = "spi"
  /\ br' = [phase |-> "spi", op |-> op, address |-> address, value |-> value,
            events |-> ev, cs |-> ev[Len(ev)][2]]
  /\ brFrame

FrameWriteMemory ==
  \E a \in SpiAddrs, v \in SpiValues :
    FrameStep("writeMemory", a, v, writePulpinoMemory(a, v))

FrameWriteRegister ==
  \E a \in SpiAddrs, v \in SpiValues :
    FrameStep("writeRegister", a, v, writePulpinoRegister(a, v))

FrameReadMemory ==
  \E a \in SpiAddrs, b1 \in MisoBytes, b2 \in MisoBytes, b3 \in MisoBytes, b4 \in MisoBytes :
    FrameStep("readMemory", a, ReceiveWord(<<b1, b2, b3, b4>>),
              readPulpinoMemory(a, <<b1, b2, b3, b4>>))

FrameReadRegister ==
  \E a \in SpiAddrs, b1 \in MisoBytes, b2 \in MisoBytes, b3 \in MisoBytes, b4 \in MisoBytes :
    FrameStep("readRegister", a, ReceiveWord(<<b1, b2, b3, b4>>),
              readPulpinoRegister(a, <<b1, b2, b3, b4>>))

NextFrame ==
  \/ FrameWriteMemory
  \/ FrameWriteRegister
  \/ FrameReadMemory
  \/ FrameReadRegister

SpecFrame == InitFrame /\ [][NextFrame]_vars

\* the positions at which chip-select goes low, and the bytes of the frame
\* that starts at position i
CsLowAt == { i \in 1..Len(br.events) : br.events[i] = Cs(0) }
FrameEnd(i) ==
  CHOOSE j \in (i + 1)..(Len(br.events) + 1) :
    /\ j = Len(br.events) + 1 \/ br.events[j][1] = "CS"
    /\ \A k \in (i + 1)..(j - 1) : br.events[k][1] # "CS"
FrameBody(i) == SubSeq(br.events, i + 1, FrameEnd(i) - 1)
BytesOutsideFrame(i) ==
  { k \in 1..Len(br.events) :
      br.events[k][1] # "CS" /\ (k < i \/ k > FrameEnd(i)) }

\* the address or data word that the bytes f[n], .., f[n + 3] carry
WordAt(f, n) == << f[n][2], f[n + 1][2], f[n + 2][2], f[n + 3][2] >>

\* C18: every write transaction is one chip-select-low frame of exactly the
\* opcode, the four address bytes and the four data bytes, most significant
\* first; every read transaction sends the opcode, the four address bytes and
\* one dummy byte and then receives four bytes; chip-select is high at the
\* return.
C18_FrameFormat ==
  br.op # "none" =>
    /\ br.cs = 1
    /\ Cardinality(CsLowAt) = 1
    /\ \A i \in CsLowAt :
         LET f == FrameBody(i)
         IN  /\ BytesOutsideFrame(i) = {}
             /\ IF br.op \in {"writeMemory", "writeRegister"}
                THEN /\ Len(f) = 9
                     /\ \A k \in 1..9 : f[k][1] = "TX"
                     /\ WordAt(f, 2) = br.address
                     /\ WordAt(f, 6) = br.value
                ELSE /\ Len(f) = 10
                     /\ \A k \in 1..6 : f[k][1] = "TX"
                     /\ f[1] = Tx(11)
                     /\ WordAt(f, 2) = br.address
                     /\ \A k \in 7..10 : f[k][1] = "RX"
                     /\ WordAt(f, 7) = br.value

(***************************************************************************)
(* flashPulpino: reset of the core, the image frame, start of the core and *)
(* the wait for FETCH_DONE                                                 *)
(***************************************************************************)
Rstn(level) == <<"RSTN", level>>
FetchEn(level) == <<"FETCH_EN", level>>

\* the three reset pulses and the toggle of FETCH_EN
resetPulpino ==
  << Rstn(0), Rstn(1), Rstn(0), Rstn(1), Rstn(0), Rstn(1),
     FetchEn(0), FetchEn(1), FetchEn(0) >>

\* the write command, instructionMemAddr and the length field
FlashHeader ==
  << Tx(2) >> \o WordBytes(<<0, 0, 0, 1>>) \o << Tx(0), Tx(0), Tx(0), Tx(4) >>

bufferSize == 256
FetchTimeout == 1000

\* the byte at position p of the image file
ImageByte(seed, p) == (seed + 7 * p) % 256

\* mutant: every chunk fills the buffer
ChunkLen_Full(fileSize, totalSent) == bufferSize

\* min(bufferSize, fileSize - totalSent)
ChunkLen(fileSize, totalSent) ==
  IF bufferSize < fileSize - totalSent THEN bufferSize ELSE fileSize - totalSent

\* mutant: the report follows the last level read
FetchReport_ByLevel(tmo, level) == IF level = 1 THEN "received" ELSE "not received"

\* the message after the wait loop
FetchReport(tmo, level) == IF tmo <= 0 THEN "not received" ELSE "received"

InitFlashWith(sizes, seeds) ==
  /\ runIdle
  /\ wlog = <<>>
  /\ cnfSt = [phase |-> "none"]
  /\ regs = <<>>
  /\ memOp = <<>>
  /\ \E ex \in BOOLEAN, n \in sizes, sd \in seeds :
       br = [phase |-> "start", exists |-> ex, fileSize |-> n, seed |-> sd,
             totalSent |-> 0, chunks |-> <<>>, events |-> <<>>,
             tmo |-> 0, delays |-> 0, level |-> 0, report |-> "none"]

\* flashPulpino up to the chunk loop
FlashBegin ==
  /\ br.phase = "start"
  /\ IF ~ br.exists
     THEN br' = [br EXCEPT !.phase = "done"]
     ELSE br' = [br EXCEPT !.phase = "chunk",
                           !.events = resetPulpino \o pulpinoSpiBegin \o << Cs(0) >>
                                        \o FlashHeader]
  /\ brFrame

\* one test of the chunk loop: one chunk, or the end of the frame and the
\* start of the core
FlashChunk ==
  /\ br.phase = "chunk"
  /\ IF br.totalSent < br.fileSize
     THEN LET n == ChunkLen(br.fileSize, br.totalSent)
          IN  br' = [br EXCEPT
                       !.events = @ \o [i \in 1..n |->
                                          Tx(ImageByte(br.seed, br.totalSent + i - 1))],
                       !.chunks = Append(@, n),
                       !.totalSent = @ + n]
     ELSE br' = [br EXCEPT
                   !.phase = "poll",
                   !.events = @ \o << Cs(1) >> \o pulpinoSpiEnd \o << Rstn(1), FetchEn(1) >>,
                   !.tmo = FetchTimeout]
  /\ brFrame

\* one test of the wait loop with the level read on FETCH_DONE
FlashPoll ==
  /\ br.phase = "poll"
  /\ \E level \in {0, 1} :
       IF level = 0 /\ br.tmo > 0
       THEN br' = [br EXCEPT !.tmo = @ - 1, !.delays = @ + 1, !.level = level]
       ELSE br' = [br EXCEPT !.phase = "done", !.level = level,
                             !.report = FetchReport(br.tmo, level)]
  /\ brFrame

NextFlash == FlashBegin \/ FlashChunk \/ FlashPoll

(***************************************************************************)
(* Specification SpecFlash: images around the chunk size                   *)
(***************************************************************************)
FileSizes == {0, 1, bufferSize, bufferSize + 1, 2 * bufferSize + 1}
ImageSeeds == {3, 250}

InitFlash == InitFlashWith(FileSizes, ImageSeeds)

SpecFlash == InitFlash /\ [][NextFlash]_vars

\* position of the event that pulls chip-select low, of the end of that frame
\* and of the last event that raises FETCH_EN
FlashCsLow == CHOOSE i \in 1..Len(br.events) : br.events[i] = Cs(0)
FlashCsHigh ==
  CHOOSE j \in (FlashCsLow + 1)..Len(br.events) :
    /\ br.events[j] = Cs(1)
    /\ \A k \in (FlashCsLow + 1)..(j - 1) : br.events[k][1] = "TX"
LevelBefore(line, i, init) ==
  LET ks == { k \in 1..(i - 1) : br.events[k][1] = line }
  IN  IF ks = {} THEN init
      ELSE br.events[CHOOSE k \in ks : \A m \in ks : m <= k][2]

\* what holds of the events in both readings of C19
FlashOrder ==
  LET ev == br.events
      i == FlashCsLow
      j == FlashCsHigh
  IN  /\ Cardinality({ k \in 1..Len(ev) : ev[k] = Cs(0) }) = 1
      /\ \A k \in 1..6 : ev[k] = Rstn(1 - (k % 2))
      /\ i > 6
      /\ j - i - 1 = Len(FlashHeader) + br.fileSize
      /\ SubSeq(ev, i + 1, i + Len(FlashHeader)) = FlashHeader
      /\ \A q \in 1..br.fileSize :
           ev[i + Len(FlashHeader) + q] = Tx(ImageByte(br.seed, q - 1))
      /\ \A k \in 1..Len(ev) : ev[k][1] = "TX" => (i < k /\ k < j)
      /\ \A k \in 1..Len(br.chunks) : br.chunks[k] \in 1..bufferSize
      /\ LevelBefore("FETCH_EN", i, 1) = 0
      /\ LevelBefore("RSTN", i, 0) = 1
      /\ ev[Len(ev)] = FetchEn(1)
      /\ Len(ev) > j

\* C19 (as amended): flashPulpino performs, in this order, the reset pulses
\* of the core with one pulse of FETCH_EN after them, one chip-select-low
\* frame with the write header and then the fileSize bytes of the image in
\* file order in chunks of at most 256, the release of chip-select, and then
\* FETCH_EN high for good; during the frame FETCH_EN is low and the reset
\* line is high.
C19_FlashOrder ==
  br.phase \in {"poll", "done"} /\ br.exists =>
    /\ FlashOrder
    /\ { k \in 1..Len(br.events) : br.events[k] = FetchEn(1) } = {8, Len(br.events)}

\* C19 (as claimed): FETCH_EN is raised only after the release of chip-select
C19_AsClaimed ==
  br.phase \in {"poll", "done"} /\ br.exists =>
    /\ FlashOrder
    /\ \A k \in 1..Len(br.events) : br.events[k] = FetchEn(1) => k > FlashCsHigh

\* an image of two full chunks and one byte has been sent and the core started
C19_Witness ==
  /\ br.phase = "poll"
  /\ br.fileSize = 2 * bufferSize + 1
  /\ br.chunks = << bufferSize, bufferSize, 1 >>
  /\ br.totalSent = br.fileSize
  /\ br.events[Len(br.events)] = FetchEn(1)

(***************************************************************************)
(* Specification SpecFetch: flashPulpino with a one-byte image; the wait   *)
(* loop runs without interruption                                          *)
(***************************************************************************)
InitFetch == InitFlashWith({1}, {3})

SpecFetch == InitFetch /\ [][NextFlash]_vars /\ WF_vars(FlashPoll)

\* C20: after raising FETCH_EN, flashPulpino reads FETCH_DONE at most once
\* per millisecond, makes at most 1000 waits and then leaves the loop whether
\* or not the line went high; it reports FETCH_DONE as received exactly when
\* one of the first 1000 reads found the line high.
C20_FetchDoneWait ==
  /\ (br.phase = "poll") ~> (br.phase = "done")
  /\ [](br.phase \in {"poll", "done"} /\ br.exists =>
          /\ br.delays <= FetchTimeout
          /\ br.delays + br.tmo = FetchTimeout)
  /\ [](br.phase = "done" /\ br.exists =>
          (br.report = "received" <=> (br.level = 1 /\ br.delays < FetchTimeout)))
  /\ [][ (br.phase = "poll" /\ br'.phase = "poll") =>
           /\ br'.delays = br.delays + 1
           /\ br'.level = 0 ]_vars

\* the line went high at the last read of the window
C20_Witness ==
  /\ br.phase = "done"
  /\ br.delays = FetchTimeout - 1
  /\ br.level = 1
  /\ br.report = "received"

(***************************************************************************)
(* The bit-banged bus at pin level: chip select (DP2_CS), clock (DP1_CS),  *)
(* MOSI (DP0_CS) and the reads of MISO (DAC_CS)                            *)
(***************************************************************************)
Pin(name, level) == << name, level >>

\* (data >> i) & 0x01
BitOf(data, i) == (data \div (2 ^ i)) % 2

\* clockPolarity and clockPhase that updateSpiModeTo derives from the mode;
\* a mode above 3 takes the default branch
ClockPolarity(spiMode) == IF spiMode \in {2, 3} THEN 1 ELSE 0
ClockPhase(spiMode) == IF spiMode \in {1, 3} THEN 1 ELSE 0

\* pulpinoSpiBeginMode: chip select high, clock at the idle level of the
\* polarity, MOSI low
pulpinoSpiBeginMode(clockPolarity, clockPhase) ==
  << Pin("CS", 1), Pin("CLK", clockPolarity), Pin("MOSI", 0) >>

\* pulpinoSpiBegin at pin level
pulpinoSpiBeginPins == << Pin("CS", 1), Pin("CLK", 0), Pin("MOSI", 0) >>

\* pulpinoSpiSendByte: for bit i, MOSI, clock high, clock low
SendBit(data, i) == << Pin("MOSI", BitOf(data, i)), Pin("CLK", 1), Pin("CLK", 0) >>
pulpinoSpiSendByte(data) ==
  SendBit(data, 7) \o SendBit(data, 6) \o SendBit(data, 5) \o SendBit(data, 4)
    \o SendBit(data, 3) \o SendBit(data, 2) \o SendBit(data, 1) \o SendBit(data, 0)

\* pulpinoSpiReceiveByte: for bit i, clock high, read MISO, clock low
ReceiveBit(data, i) == << Pin("CLK", 1), Pin("READ", BitOf(data, i)), Pin("CLK", 0) >>
pulpinoSpiReceiveByte(data) ==
  ReceiveBit(data, 7) \o ReceiveBit(data, 6) \o ReceiveBit(data, 5) \o ReceiveBit(data, 4)
    \o ReceiveBit(data, 3) \o ReceiveBit(data, 2) \o ReceiveBit(data, 1) \o ReceiveBit(data, 0)

\* the pin events of one event of a transaction
EventPins(e) ==
  CASE e[1] = "CS" -> << Pin("CS", e[2]) >>
    [] e[1] = "TX" -> pulpinoSpiSendByte(e[2])
    [] e[1] = "RX" -> pulpinoSpiReceiveByte(e[2])

RECURSIVE EventsPins(_)
EventsPins(ev) == IF ev = <<>> THEN <<>> ELSE EventPins(Head(ev)) \o EventsPins(Tail(ev))

\* the pin events of a transaction ev whose first event is pulpinoSpiBegin
TransactionPins(ev) == pulpinoSpiBeginPins \o EventsPins(Tail(ev))

(***************************************************************************)
(* Specification SpecMode: updateSpiModeTo followed by memory transactions *)
(* (testMinimalMemoryAccess).  br.mode is the mode last asked for, br.clk  *)
(* the level of the clock pin, br.pins the pin events of the last call.    *)
(***************************************************************************)
SpiModes == 0..4
NoMode == 5

InitMode ==
  /\ runIdle
  /\ wlog = <<>>
  /\ cnfSt = [phase |-> "none"]
  /\ regs = <<>>
  /\ memOp = <<>>
  /\ br = [phase |-> "mode", op |-> "none", mode |-> NoMode, clk |-> 0, pins |-> <<>>]

\* the level of the clock pin after the pin events p, starting from level c
ClockAfter(c, p) ==
  LET ks == { k \in 1..Len(p) : p[k][1] = "CLK" }
  IN IF ks = {} THEN c ELSE p[CHOOSE k \in ks : \A j \in ks : j <= k][2]

ModeStep(op, spiMode, p) ==
  /\ br.phase = "mode"
  /\ br' = [phase |-> "mode", op |-> op, mode |-> spiMode,
            clk |-> ClockAfter(br.clk, p), pins |-> p]
  /\ brFrame

updateSpiModeTo ==
  \E spiMode \in SpiModes :
    ModeStep("update", spiMode,
             pulpinoSpiBeginMode(ClockPolarity(spiMode), ClockPhase(spiMode)))

ModeWriteMemory ==
  /\ br.mode # NoMode
  /\ \E a \in SpiAddrs, v \in SpiValues :
       ModeStep("write", br.mode, TransactionPins(writePulpinoMemory(a, v)))

ModeReadMemory ==
  /\ br.mode # NoMode
  /\ \E a \in SpiAddrs, b1 \in MisoBytes, b2 \in MisoBytes :
       ModeStep("read", br.mode,
                TransactionPins(readPulpinoMemory(a, <<b1, b2, b1, b2>>)))

NextMode ==
  \/ updateSpiModeTo
  \/ ModeWriteMemory
  \/ ModeReadMemory

SpecMode == InitMode /\ [][NextMode]_vars

\* the position at which chip select goes low in the last call
CsLowPin == CHOOSE i \in 1..Len(br.pins) : br.pins[i] = Pin("CS", 0)

\* the level at which the clock rests when the frame opens
IdleLevel == ClockAfter(br.clk, SubSeq(br.pins, 1, CsLowPin))

\* the clock edges of the frame that leave the idle level
LeadingEdges ==
  { i \in (CsLowPin + 1)..Len(br.pins) : br.pins[i] = Pin("CLK", 1 - IdleLevel) }

\* phase 0: MOSI is set and MISO is read while the clock is ahead of or on
\* its leading edge (data before the edge, sample after it);
\* phase 1: data after the leading edge, sample after the trailing edge
SamplingPhase ==
  IF \A i \in (CsLowPin + 1)..Len(br.pins) :
       /\ br.pins[i][1] = "MOSI" => (i + 1) \in LeadingEdges
       /\ br.pins[i][1] = "READ" => (i - 1) \in LeadingEdges
  THEN 0 ELSE 1

\* C21: after updateSpiModeTo(m), m in 0..3, a memory transaction drives the
\* clock with the idle level and the sampling phase of mode m.
C21_TransactionsUseMode ==
  (br.phase = "mode" /\ br.op \in {"write", "read"} /\ br.mode \in 0..3) =>
     /\ IdleLevel = ClockPolarity(br.mode)
     /\ SamplingPhase = ClockPhase(br.mode)

\* what the transactions do: the timing of mode 0 after every mode
C21_AlwaysModeZero ==
  (br.phase = "mode" /\ br.op \in {"write", "read"}) =>
     /\ IdleLevel = 0
     /\ SamplingPhase = 0
     /\ br.clk = 0

(***************************************************************************)
(* Order of the register writes of a solver call (specification Spec):     *)
(* wlog' holds the writes of one step of runSolverSingle/runSolverCoupled  *)
(***************************************************************************)
\* the tiles a tile argument targets
Targets(tl) == IF tl = TILE_BOTH THEN Tiles ELSE {tl}

\* the oscillator-reset bits of both halves of the global register
RxoRstBits == {RXO_RST} \cup Shl({RXO_RST}, 16)

\* smallest position after `from` at which log satisfies the test, or
\* Len(log) + 1
NextGlbl(log, from, bits) ==
  LET ks == { k \in (from + 1)..Len(log) :
                log[k][1] = GLBL_CTRL_ADDR /\ bits \subseteq log[k][2] }
  IN  IF ks = {} THEN Len(log) + 1 ELSE CHOOSE k \in ks : \A j \in ks : k <= j
NextWrite(log, from, w) ==
  LET ks == { k \in (from + 1)..Len(log) : log[k] = w }
  IN  IF ks = {} THEN Len(log) + 1 ELSE CHOOSE k \in ks : \A j \in ks : k <= j
NextSmplCtrl(log, from, clear, set) ==
  LET ks == { k \in (from + 1)..Len(log) :
                /\ log[k][1] = SMPL_CTRL_ADDR
                /\ set \subseteq log[k][2]
                /\ clear \cap log[k][2] = {} }
  IN  IF ks = {} THEN Len(log) + 1 ELSE CHOOSE k \in ks : \A j \in ks : k <= j

\* the writes of a step that set the Run bits: global-register writes that
\* carry the Run bits and are not the reset pulse of setupRXOs (the write
\* that raises RXO_RST and the one that follows it)
ArmWrites(log, tl) ==
  { k \in 1..Len(log) :
      /\ log[k][1] = GLBL_CTRL_ADDR
      /\ RunBits(tl) \subseteq log[k][2]
      /\ log[k][2] \cap RxoRstBits = {}
      /\ k > 1 => ~(log[k - 1][1] = GLBL_CTRL_ADDR /\ log[k - 1][2] \cap RxoRstBits # {}) }

\* the writes of setupRXOs: the reset pulse, the RXO word line, and the
\* bit-line words written for it
RxoWrites(log) ==
  { k \in 1..Len(log) :
      \/ log[k][1] = GLBL_CTRL_ADDR /\ log[k][2] \cap RxoRstBits # {}
      \/ log[k][1][1] = "WL" /\ log[k][1][3] = RXO_WL_WORD /\ log[k][2] # {} }

\* the writes to clause word lines
ClauseWLWrites(log) ==
  { k \in 1..Len(log) : log[k][1][1] = "WL" /\ log[k][1][3] # RXO_WL_WORD }

\* is every bit-line word 0..n-1 of tile t written between positions a and b
BLWordsWritten(log, t, n, a, b) ==
  \A i \in 0..(n - 1) : \E k \in (a + 1)..(b - 1) : log[k][1] = BLAddr(t, i)

\* end of a complete setupRXOs sequence for tile t that starts after `from`
\* (Len(log) + 1 if there is none): reset pulse, bit-line words and pulse of
\* the biasing phase, bit-line words and pulse of the enable phase
RxoSequenceEnd(log, from, t, nVar) ==
  LET n  == RxoNumWords(nVar)
      a  == NextGlbl(log, from, Shl({RXO_RST}, 16 * t))
      p1 == NextWrite(log, a, W(WLAddr(t, RXO_WL_WORD), {2}))
      p2 == NextWrite(log, p1, W(WLAddr(t, RXO_WL_WORD), {}))
      p3 == NextWrite(log, p2, W(WLAddr(t, RXO_WL_WORD), {0, 1, 3, 4}))
      p4 == NextWrite(log, p3, W(WLAddr(t, RXO_WL_WORD), {}))
  IN  IF p4 <= Len(log) /\ BLWordsWritten(log, t, n, a, p1)
                        /\ BLWordsWritten(log, t, n, p2, p3)
        THEN p4 ELSE Len(log) + 1

\* end of a complete setupSampling sequence for tile t that starts after
\* `from`: reset of the sampler, configuration with the reset released,
\* hold time
SamplingSequenceEnd(log, from, t) ==
  LET s1 == NextSmplCtrl(log, from, Shl({SMPL_RSTB}, 16 * t), {})
      s2 == NextSmplCtrl(log, s1, {}, Shl({SMPL_RSTB}, 16 * t))
  IN  NextWrite(log, s2, W(HoldTimeAddr(t), ToBits(holdTime)))

\* the number of clauses programmed on tile t by the call
TileCls(md, t, nCls) ==
  IF md = "single" THEN nCls
  ELSE IF t = TILE_RIGHT THEN nCls \div 2 ELSE nCls - (nCls \div 2)

(***************************************************************************)
(* Specification SpecOrder: calls of one or two runs on two problems, with *)
(* every outcome of the polls                                              *)
(***************************************************************************)
OrderProblems ==
  { [p |-> 0, numVar |-> 1,  numCls |-> 1],
    [p |-> 2, numVar |-> 50, numCls |-> 3] }
OrderRuns == {1, 2}

NextOrder ==
  \/ \E tl \in Tiles, n \in OrderRuns, prob \in OrderProblems : StartSingle(tl, n, prob)
  \/ \E n \in OrderRuns, prob \in OrderProblems : StartCoupled(n, prob)
  \/ Arm
  \/ PollSingle
  \/ PollCoupled
  \/ RecordSingle
  \/ RecordCoupled
  \/ NextFile

SpecOrder == Init /\ [][NextOrder]_vars

\* a step that programs the clause memory (the start of a call)
ProgramStep == mode = "none" /\ mode' # "none"

\* a step that arms or re-arms the tile(s)
ArmStep == mode' # "none" /\ ArmWrites(wlog', tile') # {}

\* C22: the clause-memory writes and word-line pulses of the targeted tiles
\* are complete before the first oscillator-setup write, and every write that
\* sets a Run bit is preceded, since the previous one, by a complete setupRXOs
\* sequence and then a complete setupSampling sequence.
C22_ProgramThenArm ==
  [][ /\ ProgramStep =>
           /\ RxoWrites(wlog') = {}
           /\ ArmWrites(wlog', tile') = {}
           /\ \A t \in Targets(tile') :
                /\ \A i \in 0..(TileCls(mode', t, numCls') - 1) :
                     ClauseWordLine(i) \in AssertedWLs(wlog', t)
                /\ \A k \in ClauseWLWrites(wlog') :
                     (\A j \in ClauseWLWrites(wlog') : j <= k)
                        => wlog'[k][2] \subseteq ReservedWLBits(wlog'[k][1][3])
      /\ ~ProgramStep => ClauseWLWrites(wlog') = {}
      /\ (pc = "arm" \/ (pc = "poll" /\ pc' = "poll")) => ArmStep
      /\ ArmStep =>
           /\ ArmWrites(wlog', tile') = {Len(wlog')}
           /\ \A t \in Targets(tile') :
                LET r == RxoSequenceEnd(wlog', 0, t, numVar')
                    s == SamplingSequenceEnd(wlog', r, t)
                IN  r < s /\ s < Len(wlog')
    ]_vars

\* a coupled run has been re-armed after a stale poll
C22_Witness ==
  /\ mode = "coupled"
  /\ pc = "poll"
  /\ numAttempts > 0
  /\ ArmWrites(wlog, tile) # {}

\* the sampling configuration word of a step: the value of its last write to
\* the sampling control register
SamplingWord(log) ==
  LET ks == { k \in 1..Len(log) : log[k][1] = SMPL_CTRL_ADDR }
  IN  log[CHOOSE k \in ks : \A j \in ks : j <= k][2]

\* a retry: a poll that re-arms (the step before it armed or re-armed)
RetryStep == pc = "poll" /\ ArmStep

\* C23: the sampling configuration word written by a retry equals the one
\* written when the run was armed, in runSolverSingle and runSolverCoupled.
C23_RetrySameSampling ==
  [][ RetryStep => SamplingWord(wlog') = SamplingWord(wlog) ]_vars

\* the part that holds: the retries of runSolverSingle
C23_SingleRetrySameSampling ==
  [][ RetryStep /\ mode = "single" => SamplingWord(wlog') = SamplingWord(wlog) ]_vars

\* the positions at which the sequence ws occurs in log
Occurrences(log, ws) ==
  { p \in 1..(Len(log) - Len(ws) + 1) : SubSeq(log, p, p + Len(ws) - 1) = ws }

\* the writes after position `from` that assert word line wl of tile t
Pulses(log, from, t, wl) ==
  { k \in (from + 1)..Len(log) :
      /\ log[k][1] = WLAddr(t, wl \div 32)
      /\ (wl % 32) \in (log[k][2] \ ReservedWLBits(wl \div 32)) }

\* the value of the global control register when write k of a step is
\* issued: that of the last write to it, or the shadow before the step
GlobalAt(log, k, g) ==
  LET ks == { j \in 1..(k - 1) : log[j][1] = GLBL_CTRL_ADDR }
  IN  IF ks = {} THEN g ELSE log[CHOOSE j \in ks : \A i \in ks : i <= j][2]

\* the Run bits of both tiles
AllRunBits == RunBits(TILE_BOTH)

\* tile t is programmed once in log: resetClsMem, then setupClsBias, then
\* writeCnf (disableCls and one pulse per clause)
ProgrammedOnce(log, t, n) ==
  LET r == Occurrences(log, ResetClsMemWrites(t))
      b == Occurrences(log, ClsBiasWrites(t, n))
      d == Occurrences(log, DisableClsWrites(t))
  IN  /\ Cardinality(r) = 1 /\ Cardinality(b) = 1 /\ Cardinality(d) = 1
      /\ \A p \in r, q \in b, s \in d :
           /\ p + Len(ResetClsMemWrites(t)) <= q
           /\ q + Len(ClsBiasWrites(t, n)) <= s
           /\ \A i \in 0..(n - 1) :
                Cardinality(Pulses(log, s + Len(DisableClsWrites(t)) - 1, t,
                                   ClauseWordLine(i))) = 1

\* C24: the clause memory of the targeted tile(s) is programmed (resetClsMem,
\* setupClsBias, writeCnf) exactly once per call, before the first Run-bit
\* assertion; no clause word line is asserted while a Run bit of either tile
\* is set.
C24_ProgrammedOnceBeforeRun ==
  [][ /\ ProgramStep =>
           /\ \A t \in Targets(tile') :
                ProgrammedOnce(wlog', t, TileCls(mode', t, numCls'))
           /\ globalReg \cap AllRunBits = {}
           /\ \A k \in 1..Len(wlog') :
                wlog'[k][1] = GLBL_CTRL_ADDR => wlog'[k][2] \cap AllRunBits = {}
      /\ ~ProgramStep =>
           \A k \in 1..Len(wlog') :
              wlog'[k][1][1] = "WL" => wlog'[k][1][3] = RXO_WL_WORD
      /\ \A k \in ClauseWLWrites(wlog') :
           wlog'[k][2] \ ReservedWLBits(wlog'[k][1][3]) # {}
              => GlobalAt(wlog', k, globalReg) \cap AllRunBits = {}
    ]_vars

\* both tiles have been programmed for a coupled call made after an earlier
\* call has run
C24_Witness ==
  /\ mode = "coupled"
  /\ pc = "arm"
  /\ runIdx = 0
  /\ Len(wlog) > 2 * Len(ResetClsMemWrites(TILE_RIGHT))
  /\ globalReg # {}

(***************************************************************************)
(* The writes of one clause of writeCnf (specification SpecCnf: wlog holds *)
(* the writes of the last iteration of the clause loop)                    *)
(***************************************************************************)
\* the positions of the word-line writes of the clause
ClauseWLPos == { k \in 1..Len(wlog) : wlog[k][1][1] = "WL" }

\* C25: a clause is written as: the used bit-line words with the clause's
\* data, the word-line assert, the word-line deassert, zero to the same
\* bit-line words; nothing comes between the assert and the deassert.  The
\* clause [1] on tile RIGHT is bit-line word 0 with bit 1 set and bit 0
\* clear, then a pulse of word line TOP_CLS_START_WL + 0.
C25_ClauseWriteOrder ==
  ClauseDone =>
    /\ Cardinality(ClauseWLPos) = 2
    /\ \E a \in ClauseWLPos :
         LET wlWrd == wlog[a][1][3]
         IN  /\ ClauseWLPos = {a, a + 1}
             /\ a > 1
             /\ Len(wlog) = 2 * a
             /\ wlog[a][1] = wlog[a + 1][1]
             /\ wlog[a][1][2] = cnfSt.tile
             /\ Cardinality(wlog[a][2] \ ReservedWLBits(wlWrd)) = 1
             /\ wlog[a + 1][2] \ ReservedWLBits(wlWrd) = {}
             /\ \A k \in 1..(a - 1) :
                  /\ wlog[k][1][1] = "BL" /\ wlog[k][1][2] = cnfSt.tile
                  /\ cnfSt.bl.used[wlog[k][1][3]]
                  /\ wlog[k][2] = cnfSt.bl.data[wlog[k][1][3]]
                  /\ wlog[a + 1 + k] = W(wlog[k][1], {})
                  /\ k > 1 => wlog[k - 1][1][3] < wlog[k][1][3]
             /\ \A w \in BLWordIdx :
                  cnfSt.bl.used[w] => \E k \in 1..(a - 1) : wlog[k][1][3] = w
    /\ (cnfSt.lits = << 1 >> /\ cnfSt.tile = TILE_RIGHT /\ cnfSt.i = 1) =>
         /\ wlog[1] = W(BLAddr(TILE_RIGHT, 0), {1})
         /\ AssertedWLs(wlog, TILE_RIGHT) = {TOP_CLS_START_WL + 0}
         /\ \A k \in 2..Len(wlog) : wlog[k][1][1] = "BL" => wlog[k][2] = {}

\* the clause [1] has been written as first clause of tile RIGHT
C25_Witness ==
  /\ ClauseDone
  /\ cnfSt.lits = << 1 >>
  /\ cnfSt.tile = TILE_RIGHT
  /\ cnfSt.i = 1
  /\ Len(wlog) = 6

\* the bit-line words that the writes of the clause address
WrittenBLWords == { wlog[k][1][3] : k \in { n \in 1..Len(wlog) : wlog[n][1][1] = "BL" } }

\* the bit-line words that hold a bit of a literal of the clause
LiteralBLWords ==
  { ((IF cnfSt.lits[n] < 0 THEN -cnfSt.lits[n] ELSE cnfSt.lits[n]) - 1) \div 16 :
      n \in 1..Len(cnfSt.lits) }

\* C26: the bit-line words written for a clause are exactly the words that
\* hold a bit of one of its literals together with the last (enable) word; a
\* clause without literals writes only the enable word and still pulses its
\* word line.
C26_UsedWordsWritten ==
  ClauseDone =>
    /\ WrittenBLWords = LiteralBLWords \cup {BL_WORDS - 1}
    /\ \A k \in 1..Len(wlog) : wlog[k][1][1] = "BL" => wlog[k][1][2] = cnfSt.tile
    /\ cnfSt.lits = <<>> =>
         /\ WrittenBLWords = {BL_WORDS - 1}
         /\ AssertedWLs(wlog, cnfSt.tile) = {ClauseWordLine(cnfSt.i - 1)}
         /\ Len(wlog) = 4

\* a clause without literals has been written
C26_Witness ==
  /\ ClauseDone
  /\ cnfSt.lits = <<>>
  /\ cnfSt.i > 1

\* a clause whose literals lie in several bit-line words has been written
C26_WitnessSeveralWords ==
  /\ ClauseDone
  /\ Cardinality(LiteralBLWords) > 2

(***************************************************************************)
(* Specification SpecGlobal: the operations that change the shadow of the  *)
(* global control register, in any order.  regs is the register of the     *)
(* chip (known once it has been written), memOp the last operation.        *)
(***************************************************************************)
\* clause counts around the section limits
GlobalNumClsVals == {SECT_CLS, SECT_CLS + 1, HALF_CLS + SECT_CLS + 1}

\* the section-enable bits (active low) of both halves
SectionBits(tl) == Shl({CLS_SW_ENb_TOP, CLS_SW_ENb_BOT}, 16 * tl)

\* the shadow when the first operation is called: zero, or every section
\* disabled
GlobalResetVals == { {}, SectionBits(TILE_RIGHT) \cup SectionBits(TILE_LEFT) }

InitGlobal ==
  /\ pc = "idle"
  /\ mode = "none"
  /\ tile = TILE_RIGHT
  /\ numRuns = 0
  /\ runIdx = 0
  /\ numVar = 0
  /\ numCls = 0
  /\ numAttempts = 0
  /\ status = {}
  /\ solved = FALSE
  /\ results = <<>>
  /\ globalReg \in GlobalResetVals
  /\ sampleReg = {}
  /\ rlog = <<>>
  /\ hist = HistInit
  /\ wlog = <<>>
  /\ cnfSt = [phase |-> "none"]
  /\ regs = [written |-> FALSE, glbl |-> {}]
  /\ memOp = [op |-> "none", tile |-> TILE_RIGHT, numCls |-> 0, prevBias |-> 0]
  /\ br = [phase |-> "none"]

\* the writes of a log to the global control register
GlobalWrites(log) == { k \in 1..Len(log) : log[k][1] = GLBL_CTRL_ADDR }

\* the chip register after the writes of log
GlobalAfter(rg, log) ==
  IF GlobalWrites(log) = {} THEN rg
  ELSE [written |-> TRUE,
        glbl |-> log[CHOOSE k \in GlobalWrites(log) :
                       \A j \in GlobalWrites(log) : j <= k][2]]

\* one operation; prevBias is the clause count of the setupClsBias call on
\* the same tile that came directly before a setupClsBias call
GlobalStep(op, tl, nCls, m) ==
  /\ globalReg' = m.g
  /\ sampleReg' = m.s
  /\ wlog' = m.w
  /\ regs' = GlobalAfter(regs, m.w)
  /\ memOp' = [op |-> op, tile |-> tl, numCls |-> nCls,
               prevBias |-> IF op = "bias" /\ memOp.op = "bias" /\ memOp.tile = tl
                              THEN memOp.numCls ELSE 0]
  /\ UNCHANGED << pc, mode, tile, numRuns, runIdx, numVar, numCls, numAttempts,
                  status, solved, results, rlog, hist, cnfSt, br >>

\* setupClsBias(tile, numVar, numCls)
GlobalSetupClsBias ==
  \E tl \in Tiles, nc \in GlobalNumClsVals :
    GlobalStep("bias", tl, nc, SetupClsBias(m0, tl, 1, nc))

\* setupRXOs(tile, numVar, numCls)
GlobalSetupRXOs ==
  \E tl \in Tiles \cup {TILE_BOTH} :
    GlobalStep("rxo", tl, 1, SetupRXOs(m0, tl, 1, 1))

\* the top of a run loop body and a retry (lines 822-827, 849-854, 940-950)
GlobalArm ==
  \E tl \in Tiles \cup {TILE_BOTH} :
    GlobalStep("arm", tl, 1, ArmFirst(m0, tl, 1, 1))

\* the end of a run loop body (lines 888-889, 1035-1036)
GlobalRecord ==
  \E tl \in Tiles \cup {TILE_BOTH} :
    GlobalStep("record", tl, 1, ClearRun(m0, tl))

NextGlobal ==
  \/ GlobalSetupClsBias
  \/ GlobalSetupRXOs
  \/ GlobalArm
  \/ GlobalRecord

SpecGlobal == InitGlobal /\ [][NextGlobal]_vars

\* C27: the shadow globalReg equals the last value written to the global
\* control register: an operation that changes the shadow writes the
\* register, and the last write of an operation carries the shadow.
C27_ShadowIsLastWrite ==
  /\ [](regs.written => regs.glbl = globalReg)
  /\ [][ /\ GlobalWrites(wlog') = {} => globalReg' = globalReg
         /\ \A k \in GlobalWrites(wlog') :
              (\A j \in GlobalWrites(wlog') : j <= k) => wlog'[k][2] = globalReg'
       ]_vars

\* tile RIGHT runs after a coupled run and after the top section of tile
\* LEFT has been enabled
C27_Witness ==
  /\ regs.written
  /\ memOp.op = "arm"
  /\ memOp.tile = TILE_RIGHT
  /\ RunBits(TILE_RIGHT) \subseteq globalReg
  /\ RXO_MODE \in globalReg
  /\ globalReg \cap SectionBits(TILE_LEFT) = Shl({CLS_SW_ENb_BOT}, 16)

(***************************************************************************)
(* Specification SpecRxo: calls of setupRXOs with any parameters           *)
(***************************************************************************)
\* numVar: one oscillator, full and partial bytes and words, the largest
\* value of the type
RxoNumVarVals == {1, 4, 5, 8, 12, 13, 15, 16, 17, 32, 48, 255}
RxoNumClsVals == {1, HALF_CLS, HALF_CLS + 1}

InitRxo ==
  /\ runIdle
  /\ wlog = <<>>
  /\ cnfSt = [phase |-> "none"]
  /\ regs = <<>>
  /\ memOp = [op |-> "none", tile |-> TILE_RIGHT, numVar |-> 1, numCls |-> 1]
  /\ br = [phase |-> "none"]

\* setupRXOs(tile, numVar, numCls)
RxoSetup ==
  \E tl \in Tiles \cup {TILE_BOTH}, nv \in RxoNumVarVals, nc \in RxoNumClsVals :
    LET m == SetupRXOs(m0, tl, nv, nc)
    IN  /\ globalReg' = m.g
        /\ wlog' = m.w
        /\ memOp' = [op |-> "rxo", tile |-> tl, numVar |-> nv, numCls |-> nc]
        /\ UNCHANGED << pc, mode, tile, numRuns, runIdx, numVar, numCls, numAttempts,
                        status, solved, results, sampleReg, rlog, hist, cnfSt, regs, br >>

NextRxo == RxoSetup

SpecRxo == InitRxo /\ [][NextRxo]_vars

\* the bit-line writes of tile t in the last call, in order
BLWritesOf(t) == SelectSeq(wlog, LAMBDA w : w[1][1] = "BL" /\ w[1][2] = t)

\* a word that carries the byte (a set of bits 0..7) in its k low bytes
LowBytes(byte, k) == { b + 8 * j : b \in byte, j \in 0..(k - 1) }

\* ceil(numVar / 16), and the number of bytes of the last word: ceil(p / 4)
\* for p = numVar mod 16, four when p = 0
NumWordsOf(nv) == (nv + 15) \div 16
LastBytesOf(nv) == IF nv % 16 = 0 THEN 4 ELSE ((nv % 16) + 3) \div 4

\* is phase ph (0: biasing, 1: enable) of tile t written with the byte
PhaseWritten(t, ph, byte) ==
  LET n == NumWordsOf(memOp.numVar)
      bl == BLWritesOf(t)
  IN  /\ Len(bl) = 2 * n
      /\ \A i \in 1..n :
           bl[ph * n + i] =
             W(BLAddr(t, i - 1),
               LowBytes(byte, IF i < n THEN 4 ELSE LastBytesOf(memOp.numVar)))

\* 0x0C, or 0x3C when numCls > HALF_CLS
EnableByte == IF memOp.numCls > HALF_CLS THEN {2, 3, 4, 5} ELSE {2, 3}

\* C28: setupRXOs writes ceil(numVar/16) bit-line words in each phase; the
\* full words carry the phase's byte (0xF0 when biasing, the enable byte
\* after) in all four bytes and the last word carries it in the ceil(p/4) low
\* bytes, p = numVar mod 16, in all four when p = 0.
C28_PhaseWords ==
  memOp.op = "rxo" =>
    \A t \in Targets(memOp.tile) :
      /\ PhaseWritten(t, 0, {4, 5, 6, 7})
      /\ PhaseWritten(t, 1, EnableByte)

\* what holds: the enable phase for every numVar, and the biasing phase when
\* the last word is written with one to three bytes
C28_EnablePhaseWords ==
  memOp.op = "rxo" =>
    \A t \in Targets(memOp.tile) :
      /\ PhaseWritten(t, 1, EnableByte)
      /\ ((memOp.numVar % 16) \in 1..12) => PhaseWritten(t, 0, {4, 5, 6, 7})

\* the last biasing word of a call with p = 0 or p > 12 is the enable word
C28_LastBiasWordIsEnableWord ==
  (memOp.op = "rxo" /\ (memOp.numVar % 16) \notin 1..12) =>
    \A t \in Targets(memOp.tile) :
      BLWritesOf(t)[NumWordsOf(memOp.numVar)] =
        W(BLAddr(t, NumWordsOf(memOp.numVar) - 1), LowBytes(EnableByte, 4))

\* the sections a clause count needs (setupClsBias, lines 356-365): the top
\* switch above SECT_CLS clauses, the bottom switch above HALF_CLS + SECT_CLS
NeedsTop(nCls) == nCls > SECT_CLS
NeedsBot(nCls) == nCls > HALF_CLS + SECT_CLS

\* C29: after setupClsBias(tile, numVar, numCls) the section-enable bits
\* (active low) of the tile's half of the shadow are clear for the sections
\* numCls needs and set for the others, whatever was programmed on the tile
\* before (here: directly before, by an earlier setupClsBias of that tile).
C29_SectionsFollowNumCls ==
  (memOp.op = "bias" /\ memOp.prevBias # 0) =>
     /\ (CLS_SW_ENb_TOP + 16 * memOp.tile \in globalReg) <=> ~NeedsTop(memOp.numCls)
     /\ (CLS_SW_ENb_BOT + 16 * memOp.tile \in globalReg) <=> ~NeedsBot(memOp.numCls)

\* what holds: the sections that numCls needs are enabled, and no bit of the
\* other tile's half changes
C29_NeededSectionsEnabled ==
  /\ [](memOp.op = "bias" =>
          /\ NeedsTop(memOp.numCls) => CLS_SW_ENb_TOP + 16 * memOp.tile \notin globalReg
          /\ NeedsBot(memOp.numCls) => CLS_SW_ENb_BOT + 16 * memOp.tile \notin globalReg)
  /\ [][ memOp'.op = "bias" =>
           /\ globalReg' \subseteq globalReg
           /\ globalReg \ globalReg' \subseteq SectionBits(memOp'.tile) ]_vars

\* a section that numCls does not need stays enabled after a larger problem
C29_SectionLeftEnabled ==
  /\ memOp.op = "bias"
  /\ memOp.prevBias > HALF_CLS + SECT_CLS
  /\ ~NeedsTop(memOp.numCls)
  /\ SectionBits(memOp.tile) \cap globalReg = {}

\* the halves of a 32-bit register value
LowHalf(x) == x \cap (0..15)
HighHalf(x) == x \cap (16..31)

\* is a hold-time register written in the last call, and with which values
HoldWrites(t) == { wlog'[k][2] : k \in { n \in 1..Len(wlog') : wlog'[n][1] = HoldTimeAddr(t) } }

\* C30: setupSampling(TILE_RIGHT) sets the lower 16 bits of the sampling
\* shadow to the configuration word and leaves the upper 16 bits and the LEFT
\* hold-time register alone; TILE_LEFT is the mirror image; TILE_BOTH sets
\* both halves and both hold-time registers; the last write to the sampling
\* control register carries the shadow.
C30_SamplingFrame ==
  [][ memOp'.op = "sampling" =>
        LET tl == memOp'.tile
            cfg == ConfigBits(IF memOp'.clkDiv > 3 THEN 3 ELSE memOp'.clkDiv,
                              IF memOp'.mode > 3 THEN 0 ELSE memOp'.mode)
            ctrl == { k \in 1..Len(wlog') : wlog'[k][1] = SMPL_CTRL_ADDR }
        IN  /\ tl = TILE_RIGHT =>
                 /\ LowHalf(sampleReg') = cfg
                 /\ HighHalf(sampleReg') = HighHalf(sampleReg)
                 /\ HoldWrites(TILE_RIGHT) = {ToBits(holdTime)}
                 /\ HoldWrites(TILE_LEFT) = {}
            /\ tl = TILE_LEFT =>
                 /\ HighHalf(sampleReg') = Shl(cfg, 16)
                 /\ LowHalf(sampleReg') = LowHalf(sampleReg)
                 /\ HoldWrites(TILE_LEFT) = {ToBits(holdTime)}
                 /\ HoldWrites(TILE_RIGHT) = {}
            /\ tl = TILE_BOTH =>
                 /\ sampleReg' = cfg \cup Shl(cfg, 16)
                 /\ HoldWrites(TILE_RIGHT) = {ToBits(holdTime)}
                 /\ HoldWrites(TILE_LEFT) = {ToBits(holdTime)}
            /\ ctrl # {}
            /\ \A k \in ctrl : (\A j \in ctrl : j <= k) => wlog'[k][2] = sampleReg'
            /\ \A k \in 1..Len(wlog') :
                 wlog'[k][1] \in {SMPL_CTRL_ADDR, HoldTimeAddr(TILE_RIGHT),
                                  HoldTimeAddr(TILE_LEFT)}
    ]_vars

\* tile RIGHT was set up while tile LEFT holds another configuration
C30_Witness ==
  /\ memOp.op = "sampling"
  /\ memOp.tile = TILE_RIGHT
  /\ HighHalf(sampleReg) # {}
  /\ HighHalf(sampleReg) # Shl(LowHalf(sampleReg), 16)

(***************************************************************************)
(* Oscillator coupling in runSolverCoupled (specification SpecOrder)       *)
(***************************************************************************)
\* the oscillator-coupling bits of both halves of the global register
CouplingBits == {RXO_MODE} \cup Shl({RXO_MODE}, 16)

\* a step of runSolverCoupled that arms or re-arms both tiles
CoupledArmStep == mode' = "coupled" /\ ArmWrites(wlog', TILE_BOTH) # {}

\* C31: every arm of runSolverCoupled (initial and retry) issues the
\* oscillator setup for both tiles and leaves RXO_MODE set in both halves of
\* the Global Control Register, and every Global Control Register write of
\* runSolverCoupled that carries both Run bits carries both coupling bits.
C31_CoupledArmsCoupling ==
  [][ /\ CoupledArmStep =>
           /\ \A t \in Tiles : RxoSequenceEnd(wlog', 0, t, numVar') <= Len(wlog')
           /\ CouplingBits \subseteq globalReg'
           /\ AllRunBits \subseteq globalReg'
      /\ mode' = "coupled" =>
           /\ \A k \in GlobalWrites(wlog') :
                AllRunBits \subseteq wlog'[k][2] => CouplingBits \subseteq wlog'[k][2]
           /\ AllRunBits \subseteq globalReg' => CouplingBits \subseteq globalReg'
    ]_vars

\* a retry of a coupled run has re-armed both tiles with the coupling bits set
C31_Witness ==
  /\ mode = "coupled"
  /\ pc = "poll"
  /\ numAttempts > 0
  /\ ArmWrites(wlog, TILE_BOTH) # {}
  /\ AllRunBits \cup CouplingBits \subseteq globalReg

(***************************************************************************)
(* Specification SpecMail: sendPulpinoCommand and the loop of blink.c,     *)
(* interleaved at the level of the single accesses to the mailbox          *)
(***************************************************************************)
MailCommands == {ToBits(1), ToBits(3), ToBits(4)}
MailData == {ToBits(3), ToBits(7)}
MailTimeouts == {0, ClockMod - MaxPollTicks}
NoOperand == {32}

InitMail ==
  /\ runIdle
  /\ wlog = <<>>
  /\ cnfSt = [phase |-> "none"]
  /\ regs = <<>>
  /\ memOp = <<>>
  /\ br = [phase |-> "idle", corePc |-> "loop", coreCmd |-> {}, coreData |-> {},
           mem |-> BrMem(COMM_READY), command |-> {}, data |-> {},
           timeoutMs |-> 0, ret |-> "none", result |-> ToBits(9),
           startTime |-> 0, now |-> 0, calls |-> 0,
           operand |-> NoOperand, seenData |-> {}, seenOperand |-> {}]

\* sendPulpinoCommand: the read of the status and the check for READY
\* (lines 1444-1454)
MailCheck ==
  /\ br.phase = "idle"
  /\ br.calls < MaxCalls
  /\ \E command \in MailCommands, data \in MailData, timeoutMs \in MailTimeouts :
       br' = [br EXCEPT !.command = command, !.data = data,
                        !.timeoutMs = timeoutMs, !.calls = @ + 1,
                        !.phase = IF StatusReady(br.mem[COMM_STATUS_ADDR])
                                    THEN "data" ELSE "idle",
                        !.ret = IF StatusReady(br.mem[COMM_STATUS_ADDR])
                                  THEN "none" ELSE "false"]
  /\ brFrame

\* sendPulpinoCommand: writePulpinoMemory(COMM_DATA_ADDR, data), then
\* writePulpinoMemory(COMM_COMMAND_ADDR, command) and the first sample of
\* millis() (lines 1456-1470)
MailWrite ==
  /\ br.phase \in {"data", "command"}
  /\ IF br.phase = "data"
     THEN br' = [br EXCEPT !.mem = [@ EXCEPT ![COMM_DATA_ADDR] = br.data],
                           !.phase = "command"]
     ELSE br' = [br EXCEPT !.mem = [@ EXCEPT ![COMM_COMMAND_ADDR] = br.command],
                           !.operand = br.data,
                           !.startTime = br.now,
                           !.phase = "poll"]
  /\ brFrame

\* sendPulpinoCommand: one evaluation of the loop condition and one pass of
\* the polling loop, or the return after the loop (lines 1471-1497)
MailPoll ==
  /\ br.phase = "poll"
  /\ IF ~ (ClockDiff(br.now, br.startTime) < br.timeoutMs)
     THEN br' = [br EXCEPT !.phase = "idle", !.ret = "false"]
     ELSE IF br.mem[COMM_STATUS_ADDR] = StatusComplete
          THEN br' = [br EXCEPT !.phase = "idle", !.ret = "true",
                                !.result = br.mem[COMM_RESULT_ADDR]]
          ELSE \E d \in PollTicks..MaxPollTicks :
                 br' = [br EXCEPT !.now = (@ + d) % ClockMod]
  /\ brFrame

\* blink.c: unsigned int cmd = COMM_COMMAND; if (cmd != 0) (lines 48-50)
CoreRead ==
  /\ br.corePc = "loop"
  /\ br.mem[COMM_COMMAND_ADDR] # {}
  /\ br' = [br EXCEPT !.corePc = "busy", !.coreCmd = br.mem[COMM_COMMAND_ADDR],
                      !.seenData = br.mem[COMM_DATA_ADDR],
                      !.seenOperand = br.operand]
  /\ brFrame

\* blink.c: COMM_STATUS = COMM_BUSY (line 52)
CoreBusy ==
  /\ br.corePc = "busy"
  /\ br' = [br EXCEPT !.corePc = "switch",
                      !.mem = [@ EXCEPT ![COMM_STATUS_ADDR] = COMM_BUSY]]
  /\ brFrame

\* blink.c: the switch (lines 55-73); COMM_DATA * COMM_DATA reads the
\* volatile register twice
CoreSwitch ==
  /\ br.corePc \in {"switch", "second"}
  /\ IF br.corePc = "switch" /\ br.coreCmd = ToBits(3)
     THEN br' = [br EXCEPT !.corePc = "second", !.coreData = br.mem[COMM_DATA_ADDR]]
     ELSE IF br.corePc = "second"
     THEN br' = [br EXCEPT !.corePc = "ack",
                           !.mem = [@ EXCEPT ![COMM_RESULT_ADDR] =
                                      Mul32(br.coreData, br.mem[COMM_DATA_ADDR])]]
     ELSE IF br.coreCmd \in {ToBits(1), ToBits(2)}
     THEN br' = [br EXCEPT !.corePc = "ack",
                           !.mem = [@ EXCEPT ![COMM_RESULT_ADDR] =
                                      CoreResult(br.coreCmd, br.mem[COMM_DATA_ADDR])]]
     ELSE br' = [br EXCEPT !.corePc = "ack",
                           !.mem = [@ EXCEPT ![COMM_STATUS_ADDR] = COMM_ERROR,
                                             ![COMM_RESULT_ADDR] = AllOnes]]
  /\ brFrame

\* blink.c: if (COMM_STATUS != COMM_ERROR) COMM_STATUS = COMM_ACK, then
\* COMM_COMMAND = 0 (lines 75-82)
CoreAck ==
  /\ br.corePc \in {"ack", "clear"}
  /\ IF br.corePc = "ack"
     THEN br' = [br EXCEPT !.corePc = "clear",
                           !.mem = [@ EXCEPT ![COMM_STATUS_ADDR] =
                                      IF @ # COMM_ERROR THEN COMM_ACK ELSE @]]
     ELSE br' = [br EXCEPT !.corePc = "loop",
                           !.mem = [@ EXCEPT ![COMM_COMMAND_ADDR] = {}]]
  /\ brFrame

NextMail ==
  \/ MailCheck
  \/ MailWrite
  \/ MailPoll
  \/ CoreRead
  \/ CoreBusy
  \/ CoreSwitch
  \/ CoreAck

SpecMail == InitMail /\ [][NextMail]_vars

\* the core has observed a non-zero command and not yet cleared it
CoreHasCommand == br.corePc # "loop"

\* the core has stored the result of the command it observed
CoreStored == br.corePc \in {"ack", "clear"}

\* C32: whenever the core observes a non-zero command, the data register
\* holds the operand of the call that wrote that command, and the result the
\* core stores is computed from that operand.
C32_OperandPresent ==
  /\ CoreHasCommand => br.seenData = br.seenOperand
  /\ CoreStored => br.mem[COMM_RESULT_ADDR] = CoreResult(br.coreCmd, br.seenOperand)

\* the same for the command of a first call: no other call has started
\* since the command was written
C32_FirstCallOperandPresent ==
  br.calls = 1 => C32_OperandPresent

\* the core has stored the result of the command of a first call
C32_FirstCallStored ==
  /\ br.calls = 1
  /\ CoreStored
  /\ br.coreCmd = ToBits(3)
  /\ br.mem[COMM_RESULT_ADDR] = ToBits(49)


\* the core has processed a command with opcode 1, 2 or 3 and is back at the
\* top of its loop with the command register cleared
CoreProcessed ==
  /\ br.corePc = "loop"
  /\ br.coreCmd \in {ToBits(1), ToBits(2), ToBits(3)}
  /\ br.mem[COMM_COMMAND_ADDR] = {}

\* a call of sendPulpinoCommand starts after the core has processed a command
NextCallStep == br.phase = "idle" /\ br'.calls = br.calls + 1 /\ CoreProcessed

\* C33: a sendPulpinoCommand issued after the core has finished processing a
\* command with opcode 1, 2 or 3 reads the status as READY and is accepted.
C33_ReadyForNextCommand ==
  [][NextCallStep => /\ br.mem[COMM_STATUS_ADDR] = COMM_READY
                     /\ br'.phase = "data"]_vars

\* what the program does: the core leaves the status at ACK, and the call is
\* refused without a write to the mailbox
C33_NextCommandRefused ==
  [][NextCallStep => /\ br.mem[COMM_STATUS_ADDR] = COMM_ACK
                     /\ br'.phase = "idle"
                     /\ br'.ret = "false"
                     /\ br'.mem = br.mem]_vars

\* a second call has been refused after the core processed the first command
C33_Refused ==
  /\ br.calls = 2
  /\ CoreProcessed
  /\ br.phase = "idle"
  /\ br.ret = "false"
  /\ br.mem[COMM_STATUS_ADDR] = COMM_ACK
  /\ br.mem[COMM_RESULT_ADDR] = ToBits(49)

(***************************************************************************)
(* The LDPC API firmware (FIRMWARE/LDPC_TEENSY/src/main.cpp): the state    *)
(* machine of loop() and a host that follows the serial protocol.  The     *)
(* receive buffer rx is a sequence of items: <<"line", text>> (a text line *)
(* with its newline), <<"word", value>> (4 bytes) and <<"vec", k>> (the    *)
(* 96 bytes of vector k); out is what the firmware has sent since the      *)
(* host's last command.                                                    *)
(***************************************************************************)
MaxCmds == 2

\* 32-bit words on the serial link are pairs of 16-bit halves, high half first
U32(n) == << n \div 65536, n % 65536 >>
Value(w) == w[1] * 65536 + w[2]
START_MARKER == << 57005, 48879 >>
END_MARKER == << 65535, 65535 >>
MAX_VECTORS == 1000
HeaderBytes == 8
VectorBytes == 96
MarkerBytes == 4

LdpcCommands == {"I", "STATUS", "RUN_TEST"}
LineBytes(text) ==
  IF text = "I" THEN 2 ELSE IF text = "STATUS" THEN 7 ELSE 9

ItemBytes(it) ==
  IF it[1] = "line" THEN LineBytes(it[2])
  ELSE IF it[1] = "word" THEN MarkerBytes
  ELSE VectorBytes

\* SerialUSB.available()
RECURSIVE Available(_)
Available(rx) == IF rx = <<>> THEN 0 ELSE ItemBytes(Head(rx)) + Available(Tail(rx))

Line(text) == << "line", text >>
Word(v) == << "word", v >>
Record(k) == << "result", k >>
Heartbeat == Line("DACROQ_BOARD:LDPC:HEARTBEAT:")

\* the number of leading items of rx that hold no newline
RECURSIVE BinaryPrefix(_)
BinaryPrefix(rx) ==
  IF rx = <<>> \/ Head(rx)[1] = "line" THEN 0 ELSE 1 + BinaryPrefix(Tail(rx))

\* SerialUSB.readStringUntil('\n'): the text up to the first newline, or all
\* that is buffered when the read times out; "?" stands for a text that
\* starts with binary data
ReadStringUntil(rx) ==
  LET n == BinaryPrefix(rx)
  IN  IF n = 0 THEN [cmd |-> Head(rx)[2], rx |-> Tail(rx)]
      ELSE IF n < Len(rx) THEN [cmd |-> "?", rx |-> SubSeq(rx, n + 2, Len(rx))]
      ELSE [cmd |-> "?", rx |-> <<>>]

\* processCommand (lines 235-251)
LdpcProcessCommand(fw, cmd) ==
  IF cmd = "I" THEN [fw EXCEPT !.currentState = "STATE_IDENTIFY"]
  ELSE IF cmd = "STATUS" THEN [fw EXCEPT !.currentState = "STATE_STATUS"]
  ELSE IF cmd = "HEALTH_CHECK" THEN [fw EXCEPT !.currentState = "STATE_HEALTH_CHECK"]
  ELSE IF cmd = "RUN_TEST" THEN [fw EXCEPT !.currentState = "STATE_RUN_TEST"]
  ELSE fw

\* handleIdentify (lines 81-84)
handleIdentify(fw) ==
  [fw EXCEPT !.out = Append(@, Line("DACROQ_BOARD:LDPC")),
             !.currentState = "STATE_IDLE"]

\* handleStatus (lines 86-96)
handleStatus(fw, chipOk) ==
  [fw EXCEPT !.out = Append(@, Line(IF chipOk THEN "STATUS:READY"
                                    ELSE "STATUS:ERROR:CHIP_NOT_RESPONDING")),
             !.currentState = "STATE_IDLE"]

\* processTestHeader (lines 136-166)
processTestHeader(fw) ==
  IF Available(fw.rx) >= HeaderBytes
  THEN LET marker == fw.rx[1][2]
           count == Value(fw.rx[2][2])
       IN  IF marker # START_MARKER
           THEN [fw EXCEPT !.rx = Tail(fw.rx),
                           !.out = Append(@, Line("ERROR:INVALID_START_MARKER")),
                           !.currentState = "STATE_IDLE"]
           ELSE IF count > MAX_VECTORS
           THEN [fw EXCEPT !.rx = Tail(Tail(fw.rx)),
                           !.vectorsToProcess = count,
                           !.out = Append(@, Line("ERROR:TOO_MANY_VECTORS")),
                           !.currentState = "STATE_IDLE"]
           ELSE [fw EXCEPT !.rx = Tail(Tail(fw.rx)),
                           !.vectorsToProcess = count,
                           !.out = Append(@, Word(U32(count))),
                           !.currentVector = 0,
                           !.currentState = "STATE_PROCESSING"]
  ELSE fw

\* processVector (lines 168-231)
processVector(fw) ==
  IF Available(fw.rx) >= VectorBytes
  THEN LET sent == Append(fw.out, Record(fw.currentVector))
           done == fw.currentVector + 1 >= fw.vectorsToProcess
       IN  [fw EXCEPT !.rx = Tail(fw.rx),
                      !.currentVector = @ + 1,
                      !.out = IF done
                                THEN sent \o << Word(END_MARKER),
                                                Line("TEST_COMPLETE:SUCCESS") >>
                                ELSE sent,
                      !.currentState = IF done THEN "STATE_IDLE" ELSE @]
  ELSE fw

\* the switch of loop() (lines 261-292); consecutive heartbeat lines are
\* kept as one
LdpcSwitch(fw, chipOk, beat) ==
  IF fw.currentState = "STATE_IDENTIFY" THEN handleIdentify(fw)
  ELSE IF fw.currentState = "STATE_STATUS" THEN handleStatus(fw, chipOk)
  ELSE IF fw.currentState = "STATE_RUN_TEST" THEN processTestHeader(fw)
  ELSE IF fw.currentState = "STATE_PROCESSING" THEN processVector(fw)
  ELSE IF beat /\ (fw.out = <<>> \/ fw.out[Len(fw.out)] # Heartbeat)
    THEN [fw EXCEPT !.out = Append(@, Heartbeat)]
  ELSE fw

LdpcFw ==
  [currentState |-> br.currentState, vectorsToProcess |-> br.vectorsToProcess,
   currentVector |-> br.currentVector, rx |-> br.rx, out |-> br.out]

\* one pass of loop() (lines 253-293)
LdpcLoop ==
  /\ br.phase = "ldpc"
  /\ \E chipOk \in BOOLEAN, beat \in BOOLEAN :
       LET fw0 == LdpcFw
           rd == ReadStringUntil(fw0.rx)
           fw1 == IF Available(fw0.rx) > 0 /\ fw0.currentState = "STATE_IDLE"
                    THEN LdpcProcessCommand([fw0 EXCEPT !.rx = rd.rx], rd.cmd)
                    ELSE fw0
           fw2 == LdpcSwitch(fw1, chipOk, beat)
       IN  br' = [br EXCEPT !.currentState = fw2.currentState,
                            !.vectorsToProcess = fw2.vectorsToProcess,
                            !.currentVector = fw2.currentVector,
                            !.rx = fw2.rx, !.out = fw2.out]
  /\ brFrame

\* the host sends a text command when it expects the firmware to be idle
HostCommand ==
  /\ br.phase = "ldpc"
  /\ br.host = "idle"
  /\ br.cmds < MaxCmds
  /\ \E cmd \in LdpcCommands :
       br' = [br EXCEPT !.rx = Append(@, Line(cmd)), !.out = <<>>,
                        !.cmds = @ + 1,
                        !.host = IF cmd = "RUN_TEST" THEN "header" ELSE "reply"]
  /\ brFrame

\* the host sends the header of a test: start marker and vector count
LdpcMarkers == {START_MARKER, U32(0)}
LdpcCounts == {0, 1, 2, MAX_VECTORS + 1}
HostHeader ==
  /\ br.phase = "ldpc"
  /\ br.host = "header"
  /\ \E marker \in LdpcMarkers, count \in LdpcCounts :
       br' = [br EXCEPT !.rx = @ \o << Word(marker), Word(U32(count)) >>,
                        !.host = "echo", !.announced = count,
                        !.remaining = count]
  /\ brFrame

\* the host has read the echo of the count and sends the next vector
HostVector ==
  /\ br.phase = "ldpc"
  /\ br.host = "echo"
  /\ Word(U32(br.announced)) \in { br.out[k] : k \in 1..Len(br.out) }
  /\ br.remaining > 0
  /\ br' = [br EXCEPT !.rx = Append(@, << "vec", br.announced - br.remaining >>),
                      !.remaining = @ - 1]
  /\ brFrame

\* the host has read a line that ends the exchange
HostDone ==
  /\ br.phase = "ldpc"
  /\ br.host \in {"reply", "echo"}
  /\ br.out # <<>>
  /\ br.out[Len(br.out)][1] = "line"
  /\ br.out[Len(br.out)] # Heartbeat
  /\ br' = [br EXCEPT !.host = "idle"]
  /\ brFrame

InitLdpc ==
  /\ runIdle
  /\ wlog = <<>>
  /\ cnfSt = [phase |-> "none"]
  /\ regs = <<>>
  /\ memOp = <<>>
  /\ br = [phase |-> "ldpc", currentState |-> "STATE_IDLE",
           vectorsToProcess |-> 0, currentVector |-> 0, rx |-> <<>>, out |-> <<>>,
           host |-> "idle", announced |-> 0, remaining |-> 0, cmds |-> 0]

NextLdpc ==
  \/ LdpcLoop
  \/ HostCommand
  \/ HostHeader
  \/ HostVector
  \/ HostDone

SpecLdpc == InitLdpc /\ [][NextLdpc]_vars

\* loop() runs again and again, and the host sends the vectors it announced
SpecLdpcFair ==
  InitLdpc /\ [][NextLdpc]_vars /\ WF_vars(LdpcLoop) /\ WF_vars(HostVector)


\* the records of vectors 0..n-1
TestRecords(n) == [k \in 1..n |-> Record(k - 1)]

\* what the firmware sends for a test of n vectors
TestOutput(n) ==
  << Word(U32(n)) >> \o TestRecords(n)
     \o << Word(END_MARKER), Line("TEST_COMPLETE:SUCCESS") >>

\* the header of a test of n vectors has been accepted and its count echoed
HeaderAccepted(n) ==
  /\ br.currentState = "STATE_PROCESSING"
  /\ br.vectorsToProcess = n
  /\ br.currentVector = 0
  /\ br.out = << Word(U32(n)) >>

\* the test of n vectors is complete and the firmware reads commands again
TestDone(n) ==
  /\ br.currentState = "STATE_IDLE"
  /\ br.out = TestOutput(n)

\* C34: after RUN_TEST and a header with the valid start marker and a count
\* N <= MAX_VECTORS the firmware echoes N, emits exactly N result records,
\* the end marker and TEST_COMPLETE, and returns to IDLE, for every N from 0.
C34_TestCompletes ==
  \A n \in { c \in LdpcCounts : c <= MAX_VECTORS } : HeaderAccepted(n) ~> TestDone(n)

\* the same for the counts from 1
C34_NonemptyTestCompletes ==
  \A n \in { c \in LdpcCounts : 0 < c /\ c <= MAX_VECTORS } :
    HeaderAccepted(n) ~> TestDone(n)

\* the header of a test without vectors has been accepted: the firmware
\* waits for 96 bytes that the host does not send
C34_EmptyTestWaits ==
  /\ HeaderAccepted(0)
  /\ br.rx = <<>>
  /\ br.host = "echo"
  /\ br.remaining = 0

\* a test of two vectors is complete
C34_TwoVectorsDone == TestDone(2) /\ br.vectorsToProcess = 2


\* a pass of loop() that reads the text command RUN_TEST in STATE_IDLE
ReadsRunTest ==
  /\ br.currentState = "STATE_IDLE"
  /\ br.rx # <<>>
  /\ Head(br.rx) = Line("RUN_TEST")
  /\ Len(br'.rx) < Len(br.rx)

Sent(out) == { out[k] : k \in 1..Len(out) }

\* C35: RUN_TEST received in IDLE is answered with ACK:RUN_TEST, with the
\* vector counters reset to 0, before the firmware waits for the header.
C35_RunTestAcknowledged ==
  [][ReadsRunTest =>
        /\ Line("ACK:RUN_TEST") \in Sent(br'.out)
        /\ br'.currentState = "STATE_RUN_TEST" =>
             br'.vectorsToProcess = 0 /\ br'.currentVector = 0]_vars

\* what the program does: the pass sends no line, and while it waits for
\* the header the counters are the ones of the previous test
C35_RunTestSilent ==
  [][ReadsRunTest =>
        /\ \A it \in Sent(br'.out) \ Sent(br.out) : it[1] # "line" \/ it[2] # "ACK:RUN_TEST"
        /\ br'.currentState = "STATE_RUN_TEST" =>
             /\ br'.out = br.out
             /\ br'.vectorsToProcess = br.vectorsToProcess
             /\ br'.currentVector = br.currentVector]_vars

\* the firmware waits for a header after a second RUN_TEST with the
\* counters of the first test, having sent nothing
C35_WaitsWithoutAck ==
  /\ br.currentState = "STATE_RUN_TEST"
  /\ br.out = <<>>
  /\ br.vectorsToProcess = 2
  /\ br.currentVector = 2


(***************************************************************************)
(* The 3-SAT host firmware (hardware/3SAT_TEENSY/src/main.cpp): command    *)
(* lines are sequences of characters, and an output line is a tuple of its *)
(* fixed text and its fields (the simulated measurements of a result line  *)
(* are left out)                                                           *)
(***************************************************************************)
MAX_COMMAND_LENGTH == 64

T_STATUS == << "S", "T", "A", "T", "U", "S" >>
T_HEALTH_CHECK == << "H", "E", "A", "L", "T", "H", "_", "C", "H", "E", "C", "K" >>
T_I == << "I" >>
T_CALIBRATION_START == << "C", "A", "L", "I", "B", "R", "A", "T", "I", "O", "N", ":", "S", "T", "A", "R", "T" >>
T_CALIBRATION_STATUS == << "C", "A", "L", "I", "B", "R", "A", "T", "I", "O", "N", ":", "S", "T", "A", "T", "U", "S" >>
T_SAT_TEST == << "S", "A", "T", "_", "T", "E", "S", "T", ":" >>
T_BATCH == << "B", "A", "T", "C", "H", ":" >>
T_BLINK == << "B", "L", "I", "N", "K" >>
T_LED == << "L", "E", "D", ":" >>
T_LED_ON == << "L", "E", "D", ":", "O", "N" >>
T_LED_OFF == << "L", "E", "D", ":", "O", "F", "F" >>
T_LED_ERROR == << "L", "E", "D", ":", "E", "R", "R", "O", "R" >>
T_RESET == << "R", "E", "S", "E", "T" >>
T_uf20 == << "u", "f", "2", "0" >>
T_uf20_91 == << "u", "f", "2", "0", "-", "9", "1" >>
T_uf50_218 == << "u", "f", "5", "0", "-", "2", "1", "8" >>
T_x == << "x" >>

DigitChars == << "0", "1", "2", "3", "4", "5", "6", "7", "8", "9" >>
IsDigit(c) == \E d \in 1..10 : DigitChars[d] = c
DigitOf(c) == (CHOOSE d \in 1..10 : DigitChars[d] = c) - 1

\* String(n) for n >= 0
RECURSIVE DecimalText(_)
DecimalText(n) ==
  IF n < 10 THEN << DigitChars[n + 1] >>
  ELSE Append(DecimalText(n \div 10), DigitChars[(n % 10) + 1])

\* String::toInt: the number written by the leading digits, 0 if none
RECURSIVE toIntFrom(_, _)
toIntFrom(s, acc) ==
  IF s = <<>> \/ ~ IsDigit(Head(s)) THEN acc
  ELSE toIntFrom(Tail(s), acc * 10 + DigitOf(Head(s)))
toInt(s) == toIntFrom(s, 0)

\* String::startsWith
startsWith(s, p) == Len(p) <= Len(s) /\ SubSeq(s, 1, Len(p)) = p

\* String::indexOf(ch, fromIndex): 0-based position, -1 if there is none
indexOf(s, ch, fromIndex) ==
  LET ks == { k \in fromIndex..(Len(s) - 1) : k >= 0 /\ s[k + 1] = ch }
  IN  IF ks = {} THEN -1 ELSE CHOOSE k \in ks : \A j \in ks : k <= j

\* String::substring(left, right): characters left..right-1 (0-based), with
\* the arguments exchanged when left > right and right cut at the length
substring(s, left, right) ==
  LET l == IF left > right THEN right ELSE left
      r0 == IF left > right THEN left ELSE right
      r == IF r0 > Len(s) THEN Len(s) ELSE r0
  IN  IF l >= Len(s) THEN <<>> ELSE SubSeq(s, l + 1, r)

\* String::trim
RECURSIVE trimLeft(_)
trimLeft(s) == IF s # <<>> /\ Head(s) = " " THEN trimLeft(Tail(s)) ELSE s
RECURSIVE trimRight(_)
trimRight(s) ==
  IF s # <<>> /\ s[Len(s)] = " " THEN trimRight(SubSeq(s, 1, Len(s) - 1)) ELSE s
trim(s) == trimRight(trimLeft(s))

Say(fw, lines) == [fw EXCEPT !.out = @ \o lines]

\* resetToIdle (lines 43-48)
resetToIdle(fw) == [fw EXCEPT !.currentState = "STATE_IDLE", !.commandBuffer = <<>>]

\* sendStatus (lines 51-65)
sendStatus(fw) ==
  Say(fw, << << IF fw.currentState = "STATE_IDLE" THEN "STATUS:READY"
                ELSE "STATUS:BUSY" >> >>)

\* the result lines 1..n of a test
ResultLines(tag, n) == [k \in 1..n |-> << tag, k >>]

\* processCommand, the branch SAT_TEST: (lines 113-167)
SatTest(fw, command) ==
  LET firstColon == indexOf(command, ":", 9)
      secondColon == indexOf(command, ":", firstColon + 1)
  IN  IF firstColon > 0 /\ secondColon > 0
      THEN LET problemType == substring(command, 9, firstColon)
               countStr == substring(command, secondColon + 1, Len(command))
               problemCount == toInt(countStr)
           IN  resetToIdle(
                 Say(fw, << << "ACK:SAT_TEST" >>,
                            << "PROBLEM_TYPE:", problemType >>,
                            << "COUNT:", DecimalText(problemCount) >> >>
                         \o ResultLines("RESULT:", problemCount)
                         \o << << "TEST_COMPLETE" >>, << "TOTAL_TIME_US:" >> >>))
      ELSE Say(fw, << << "ERROR:INVALID_SAT_TEST_FORMAT" >> >>)

\* processCommand, the branch BATCH: (lines 169-226)
SatBatch(fw, command) ==
  LET firstColon == indexOf(command, ":", 6)
      secondColon == indexOf(command, ":", firstColon + 1)
  IN  IF firstColon > 0 /\ secondColon > 0
      THEN LET problemSet == substring(command, 6, firstColon)
               countStr == substring(command, secondColon + 1, Len(command))
               batchCount == toInt(countStr)
           IN  resetToIdle(
                 Say(fw, << << "ACK:BATCH" >>,
                            << "PROBLEM_SET:", problemSet >>,
                            << "BATCH_COUNT:", DecimalText(batchCount) >> >>
                         \o ResultLines("BATCH_RESULT:", batchCount)
                         \o << << "BATCH_COMPLETE" >>, << "TOTAL_BATCH_TIME_US:" >> >>))
      ELSE Say(fw, << << "ERROR:INVALID_BATCH_FORMAT" >> >>)

\* processCommand (lines 68-253)
SatProcessCommand(fw, text) ==
  LET command == trim(text)
      f1 == Say(fw, << << "RX: ", command >> >>)
  IN  IF /\ fw.currentState # "STATE_IDLE"
         /\ ~ startsWith(command, T_STATUS)
         /\ ~ startsWith(command, T_RESET)
         /\ ~ startsWith(command, T_LED)
         /\ ~ startsWith(command, T_BLINK)
        THEN Say(fw, << << "ERROR:BUSY" >> >>)
      ELSE IF startsWith(command, T_STATUS) THEN sendStatus(f1)
      ELSE IF startsWith(command, T_HEALTH_CHECK)
        THEN Say(f1, << << "HEALTH:OK" >>, << "CHIP:DAEDALUS" >>, << "VERSION:1.0" >> >>)
      ELSE IF startsWith(command, T_I)
        THEN Say(f1, << << "DAEDALUS_3SAT_SOLVER" >>, << "READY" >> >>)
      ELSE IF startsWith(command, T_CALIBRATION_START)
        THEN resetToIdle(Say(f1, << << "ACK:CALIBRATION_START" >>,
                                    << "CALIBRATION:COMPLETE" >> >>))
      ELSE IF startsWith(command, T_CALIBRATION_STATUS)
        THEN Say(f1, << << "CALIBRATION:READY" >> >>)
      ELSE IF startsWith(command, T_SAT_TEST) THEN SatTest(f1, command)
      ELSE IF startsWith(command, T_BATCH) THEN SatBatch(f1, command)
      ELSE IF startsWith(command, T_BLINK) THEN Say(f1, << << "ACK:BLINK" >> >>)
      ELSE IF startsWith(command, T_LED_ON) THEN Say(f1, << << "ACK:LED_ON" >> >>)
      ELSE IF startsWith(command, T_LED_OFF) THEN Say(f1, << << "ACK:LED_OFF" >> >>)
      ELSE IF startsWith(command, T_LED_ERROR) THEN Say(f1, << << "ACK:LED_ERROR" >> >>)
      ELSE IF startsWith(command, T_RESET)
        THEN Say(resetToIdle(f1), << << "ACK:RESET" >>, << "STATUS:READY" >> >>)
      ELSE Say(f1, << << "ERROR:UNKNOWN_COMMAND" >>, << "HELP: " >> >>)

\* loop(), the while over the received characters (lines 298-311)
RECURSIVE SatReceive(_, _)
SatReceive(fw, rx) ==
  IF rx = <<>> THEN fw
  ELSE LET c == Head(rx)
       IN  IF c = "\n" \/ c = "\r"
           THEN IF Len(fw.commandBuffer) > 0
                THEN SatReceive(
                       [SatProcessCommand(fw, fw.commandBuffer)
                          EXCEPT !.commandBuffer = <<>>, !.last = fw.commandBuffer],
                       Tail(rx))
                ELSE SatReceive(fw, Tail(rx))
           ELSE IF Len(fw.commandBuffer) < MAX_COMMAND_LENGTH - 1
           THEN SatReceive([fw EXCEPT !.commandBuffer = Append(@, c)], Tail(rx))
           ELSE SatReceive(fw, Tail(rx))

\* one pass of loop() (lines 296-332)
SatLoop ==
  /\ br.phase = "sat"
  /\ br.rx # <<>>
  /\ LET fw == SatReceive([currentState |-> br.currentState,
                           commandBuffer |-> br.commandBuffer,
                           out |-> br.out, last |-> br.last], br.rx)
     IN  br' = [br EXCEPT !.currentState = fw.currentState,
                          !.commandBuffer = fw.commandBuffer,
                          !.out = fw.out, !.last = fw.last, !.rx = <<>>]
  /\ brFrame

\* command lines of the host
SatSets == {T_uf20, T_uf20_91, T_uf50_218}
SatCounts == {1, 2, 10}
SatTestLine(type, n) == T_SAT_TEST \o type \o << ":" >> \o DecimalText(n)
BatchLine(set, n) == T_BATCH \o set \o << ":" >> \o DecimalText(n)
SatLines ==
  { SatTestLine(t, n) : t \in SatSets, n \in SatCounts }
    \cup { BatchLine(t, n) : t \in SatSets, n \in SatCounts }
    \cup { T_SAT_TEST \o t \o << ":" >> \o T_x \o << ":" >> \o DecimalText(n) :
             t \in SatSets, n \in SatCounts }
    \cup { T_BATCH \o t \o << ":" >> \o T_x \o << ":" >> \o DecimalText(n) :
             t \in SatSets, n \in SatCounts }
    \cup { T_SAT_TEST \o T_uf20, T_BATCH, T_STATUS, T_RESET, T_I, T_x,
           << " " >> \o T_STATUS \o << " " >> }

\* the host sends a command line with its line ending
SatSend ==
  /\ br.phase = "sat"
  /\ br.rx = <<>>
  /\ br.cmds < MaxCmds
  /\ \E line \in SatLines, ending \in {"\n", "\r"} :
       br' = [br EXCEPT !.rx = Append(line, ending), !.out = <<>>,
                        !.last = <<>>, !.cmds = @ + 1]
  /\ brFrame

InitSat ==
  /\ runIdle
  /\ wlog = <<>>
  /\ cnfSt = [phase |-> "none"]
  /\ regs = <<>>
  /\ memOp = <<>>
  /\ br = [phase |-> "sat", currentState |-> "STATE_IDLE", commandBuffer |-> <<>>,
           rx |-> <<>>, out |-> <<>>, last |-> <<>>, cmds |-> 0]

NextSat ==
  \/ SatLoop
  \/ SatSend

SpecSat == InitSat /\ [][NextSat]_vars

\* the lines of out whose fixed text is tag
LinesOf(out, tag) == { k \in 1..Len(out) : out[k][1] = tag }

\* the answer to an accepted test of n problems
TestAnswered(ack, result, complete, n) ==
  /\ LinesOf(br.out, ack) # {}
  /\ Cardinality(LinesOf(br.out, result)) = n
  /\ LinesOf(br.out, complete) # {}
  /\ br.currentState = "STATE_IDLE"

\* C36: a command SAT_TEST:<problem_type>:<count> is answered ACK:SAT_TEST,
\* <count> RESULT lines and TEST_COMPLETE and leaves the state IDLE; a
\* command BATCH:<problem_set>:<count> is answered ACK:BATCH with <count>
\* BATCH_RESULT lines.
C36_DocumentedFormsAccepted ==
  \A t \in SatSets, n \in SatCounts :
    /\ br.last = SatTestLine(t, n) =>
         TestAnswered("ACK:SAT_TEST", "RESULT:", "TEST_COMPLETE", n)
    /\ br.last = BatchLine(t, n) =>
         TestAnswered("ACK:BATCH", "BATCH_RESULT:", "BATCH_COMPLETE", n)

\* what the program does with the documented forms: the parser asks for a
\* colon after the one that ends the second field, and the command is
\* refused
C36_DocumentedFormsRefused ==
  \A t \in SatSets, n \in SatCounts :
    /\ br.last = SatTestLine(t, n) =>
         br.out = << << "RX: ", br.last >>, << "ERROR:INVALID_SAT_TEST_FORMAT" >> >>
    /\ br.last = BatchLine(t, n) =>
         br.out = << << "RX: ", br.last >>, << "ERROR:INVALID_BATCH_FORMAT" >> >>

\* a command with one more field is accepted, its last field being the count
C36_FourFieldsAccepted ==
  \A t \in SatSets, n \in SatCounts :
    /\ br.last = T_SAT_TEST \o t \o << ":" >> \o T_x \o << ":" >> \o DecimalText(n) =>
         TestAnswered("ACK:SAT_TEST", "RESULT:", "TEST_COMPLETE", n)
    /\ br.last = T_BATCH \o t \o << ":" >> \o T_x \o << ":" >> \o DecimalText(n) =>
         TestAnswered("ACK:BATCH", "BATCH_RESULT:", "BATCH_COMPLETE", n)

\* SAT_TEST:uf20:1 has been refused
C36_ExampleRefused ==
  /\ br.last = SatTestLine(T_uf20, 1)
  /\ br.out = << << "RX: ", br.last >>, << "ERROR:INVALID_SAT_TEST_FORMAT" >> >>
  /\ br.currentState = "STATE_IDLE"


(***************************************************************************)
(* The Run bit during a run (specification SpecOrder)                      *)
(***************************************************************************)
\* a pass of the poll loop that re-arms after a stale poll
StaleRearmStep == pc = "poll" /\ mode # "none" /\ wlog' # <<>> /\ pc' # "returned"
                    /\ runIdx' = runIdx

\* C37: from the first Run-bit write of a run until its record is persisted
\* the Run bit is never cleared: every Global Control Register write made
\* while re-arming after a stale poll carries the Run bit(s) of the targeted
\* tile(s), and between the passes of the poll loop the shadow holds them.
C37_RunBitKeptDuringRun ==
  [][ /\ StaleRearmStep =>
           /\ GlobalWrites(wlog') # {}
           /\ \A k \in GlobalWrites(wlog') : RunBits(tile) \subseteq wlog'[k][2]
      /\ pc' \in {"poll", "record"} => RunBits(tile') \subseteq globalReg'
    ]_vars

\* a retry has pulsed the oscillator reset with the Run bit set
C37_Witness ==
  /\ pc = "poll"
  /\ numAttempts > 0
  /\ \E k \in GlobalWrites(wlog) :
       /\ wlog[k][2] \cap RxoRstBits # {}
       /\ RunBits(tile) \subseteq wlog[k][2]


\* C38: no operation clears the oscillator-coupling bits: once RXO_MODE is
\* set in both halves of globalReg, every later Global Control Register
\* write, including all writes of a later runSolverSingle, has both coupling
\* bits set, and so has the shadow.
C38_CouplingBitsStay ==
  [][CouplingBits \subseteq globalReg =>
       /\ CouplingBits \subseteq globalReg'
       /\ \A k \in GlobalWrites(wlog') : CouplingBits \subseteq wlog'[k][2]]_vars

\* a single-tile run has been armed after a coupled call, with the coupling
\* bits still set in every write
C38_Witness ==
  /\ mode = "single"
  /\ pc = "poll"
  /\ GlobalWrites(wlog) # {}
  /\ \A k \in GlobalWrites(wlog) : CouplingBits \subseteq wlog[k][2]
  /\ CouplingBits \cup RunBits(tile) \subseteq globalReg


(***************************************************************************)
(* Frame of runSolverSingle (specification SpecOrder)                      *)
(***************************************************************************)
\* the 16-bit half of a 32-bit register that belongs to tile t
HalfOf(t) == { b \in BitIdx : b \div 16 = t }

\* the tile that a write to a per-tile register addresses
TileOfWrite(w) == w[1][2]
PerTileWrite(w) == w[1][1] \in {"WL", "BL", "HOLD_TIME"}

\* C39: runSolverSingle on tile T changes only T's half of the globalReg and
\* sampleReg shadows and writes only T's word-line, bit-line and hold-time
\* registers; the other tile's half of both shadows, as shadow and as
\* written, and the other tile's registers are left unchanged.
C39_SingleTouchesOwnTile ==
  [][mode' = "single" =>
       LET other == HalfOf(1 - tile')
       IN  /\ globalReg' \cap other = globalReg \cap other
           /\ sampleReg' \cap other = sampleReg \cap other
           /\ \A k \in 1..Len(wlog') :
                /\ PerTileWrite(wlog'[k]) => TileOfWrite(wlog'[k]) = tile'
                /\ wlog'[k][1] = GLBL_CTRL_ADDR =>
                     wlog'[k][2] \cap other = globalReg \cap other
                /\ wlog'[k][1] = SMPL_CTRL_ADDR =>
                     wlog'[k][2] \cap other = sampleReg \cap other]_vars

\* a run on the right tile has been armed while the left half of both
\* shadows holds what a coupled call left there
C39_Witness ==
  /\ mode = "single"
  /\ tile = TILE_RIGHT
  /\ pc = "poll"
  /\ wlog # <<>>
  /\ globalReg \cap HalfOf(TILE_LEFT) # {}
  /\ sampleReg \cap HalfOf(TILE_LEFT) # {}
  /\ \E k \in 1..Len(wlog) : wlog[k][1] = HoldTimeAddr(TILE_RIGHT)


(***************************************************************************)
(* Specification SpecRows: the contents of the clause memory.  A write to  *)
(* a word-line register that asserts word lines latches the current        *)
(* bit-line words of the tile into the asserted rows, and a write to a     *)
(* bit-line register reaches the rows whose word line is asserted at that  *)
(* moment.  cnfSt.rows maps a row (32 * word + bit) to its 17 words.       *)
(***************************************************************************)
RowIdx == 0..(32 * WL_WORDS - 1)
UnknownRow == [w \in BLWordIdx |-> {32}]

\* the bit-line words of tile tl in the registers rg
BLWords(rg, tl) == [w \in BLWordIdx |-> rg[BLAddr(tl, w)]]

\* the rows of tile tl whose word line is asserted in the registers rg
AssertedRows(rg, tl) ==
  { r \in RowIdx : (r % 32) \in rg[WLAddr(tl, r \div 32)] \ ReservedWLBits(r \div 32) }

\* rows and registers of tile tl after the writes k.. of log
RECURSIVE LatchFrom(_, _, _, _)
LatchFrom(st, tl, log, k) ==
  IF k > Len(log) THEN st
  ELSE LET rg == IF log[k][1] \in MemAddrs
                   THEN [st.regs EXCEPT ![log[k][1]] = log[k][2]] ELSE st.regs
           on == AssertedRows(rg, tl)
           rows == IF on = {} THEN st.rows
                   ELSE [r \in RowIdx |-> IF r \in on THEN BLWords(rg, tl)
                                          ELSE st.rows[r]]
       IN  LatchFrom([regs |-> rg, rows |-> rows], tl, log, k + 1)

RowsNumCls == {0, 3, HALF_CLS + 1}
RowsProblems == {0, 2}

InitRows ==
  /\ runIdle
  /\ wlog = <<>>
  /\ memOp = <<>>
  /\ br = [phase |-> "none"]
  /\ regs \in PowerOnRegs
  /\ \E tl \in Tiles, p \in RowsProblems, n \in RowsNumCls :
       cnfSt = [phase |-> "reset", tile |-> tl, p |-> p, numCls |-> n, i |-> 0,
                rows |-> [r \in RowIdx |-> UnknownRow]]

\* the writes ws of the next operation reach the registers and the rows
RowsStep(ws, phase, i) ==
  LET st == LatchFrom([regs |-> regs, rows |-> cnfSt.rows], cnfSt.tile, ws, 1)
  IN  /\ wlog' = ws
      /\ regs' = st.regs
      /\ cnfSt' = [cnfSt EXCEPT !.phase = phase, !.i = i, !.rows = st.rows]
      /\ UNCHANGED << runVars, memOp, br >>

\* resetClsMem(tile) (lines 302-336)
RowsReset ==
  /\ cnfSt.phase = "reset"
  /\ RowsStep(ResetClsMemWrites(cnfSt.tile), "bias", 0)

\* setupClsBias(tile, numVar, numCls): its word-line and bit-line writes
\* (lines 367-392)
RowsBias ==
  /\ cnfSt.phase = "bias"
  /\ RowsStep(ClsBiasWrites(cnfSt.tile, cnfSt.numCls), "disable", 0)

\* writeCnf before the clause loop: disableCls(tile) (line 612)
RowsDisable ==
  /\ cnfSt.phase = "disable"
  /\ RowsStep(DisableClsWrites(cnfSt.tile), "loop", 0)

\* one iteration of the clause loop of writeCnf (lines 615-671)
RowsClause ==
  /\ cnfSt.phase = "loop"
  /\ cnfSt.i < cnfSt.numCls
  /\ RowsStep(ClauseWrites(cnfSt.tile, cnfSt.i, CnfRow(cnfSt.p, cnfSt.i)),
              "loop", cnfSt.i + 1)

NextRows == RowsReset \/ RowsBias \/ RowsDisable \/ RowsClause

SpecRows == InitRows /\ [][NextRows]_vars

\* the force-satisfied pattern of disableCls: bit 16 of the last word
DisabledRow == [w \in BLWordIdx |-> IF w = BL_WORDS - 1 THEN {16} ELSE {}]

\* the rows of the clauses 0..CNF_MAX_CLS-1
ClauseRowOf(i) == ClauseWordLine(i)
ClauseRows == { ClauseRowOf(i) : i \in 0..(CNF_MAX_CLS - 1) }

\* C40: after resetClsMem, setupClsBias and the first i iterations of the
\* clause loop of writeCnf (all of them when writeCnf has returned), the row
\* of each clause k < i holds exactly the encoding of clause k, with every
\* bit-line word that the clause does not use equal to 0, and every other
\* clause row holds the force-satisfied pattern of disableCls.
C40_RowsHoldClauses ==
  cnfSt.phase = "loop" =>
    /\ \A k \in 0..(cnfSt.i - 1) :
         cnfSt.rows[ClauseRowOf(k)] = EncodeClause(CnfRow(cnfSt.p, k)).data
    /\ \A r \in ClauseRows \ { ClauseRowOf(k) : k \in 0..(cnfSt.i - 1) } :
         cnfSt.rows[r] = DisabledRow
    /\ \A w \in BLWordIdx : regs[BLAddr(cnfSt.tile, w)] = {}

\* writeCnf has returned after programming clauses in both halves of the
\* tile, with clauses that use different bit-line words
C40_Witness ==
  /\ cnfSt.phase = "loop"
  /\ cnfSt.i = cnfSt.numCls
  /\ cnfSt.numCls = HALF_CLS + 1
  /\ cnfSt.p = 2
  /\ cnfSt.rows[ClauseRowOf(HALF_CLS)] = EncodeClause(CnfRow(2, HALF_CLS)).data
  /\ cnfSt.rows[ClauseRowOf(1)] # cnfSt.rows[ClauseRowOf(2)]

=============================================================================
